---- MODULE Spec2Model ----
(***************************************************************************)
(* The in-memory secret store of the GSM emulator (storage.MemoryStorage)  *)
(* called by concurrent request goroutines.  Strings are sequences of      *)
(* one-character strings, byte slices are sequences of byte values.        *)
(***************************************************************************)
EXTENDS Integers, Sequences, FiniteSets, TLC

\* ------------------------------------------------------------------ bounds
\* AddSecretVersion is not invoked on a secret whose counter reached this.
MaxVersionCount == 2

\* The goroutines that call the store concurrently.
Goroutines == {"g1", "g2"}

\* ----------------------------------------------------------------- strings
StrProjects == <<"p", "r", "o", "j", "e", "c", "t", "s", "/">>
StrSecrets == <<"/", "s", "e", "c", "r", "e", "t", "s", "/">>
StrVersions == <<"/", "v", "e", "r", "s", "i", "o", "n", "s", "/">>
StrLatest == <<"l", "a", "t", "e", "s", "t">>

DigitChars == <<"0", "1", "2", "3", "4", "5", "6", "7", "8", "9">>

\* The elements of a sequence.
Range(seq) == { seq[i] : i \in 1..Len(seq) }

\* strconv.Itoa: the decimal text of an int, "-" first when negative.
RECURSIVE ItoaNat(_)
ItoaNat(n) ==
    IF n < 10 THEN <<DigitChars[n + 1]>>
    ELSE ItoaNat(n \div 10) \o <<DigitChars[(n % 10) + 1]>>

Itoa(n) == IF n < 0 THEN <<"-">> \o ItoaNat(0 - n) ELSE ItoaNat(n)

\* strconv.Atoi: an optional sign and then one or more decimal digits;
\* anything else is an error.
AtoiDigits(s) == IF Len(s) > 0 /\ s[1] \in {"+", "-"} THEN Tail(s) ELSE s

AtoiOK(s) ==
    /\ Len(AtoiDigits(s)) > 0
    /\ \A i \in 1..Len(AtoiDigits(s)) : AtoiDigits(s)[i] \in Range(DigitChars)

DigitValue(ch) == (CHOOSE i \in 1..10 : DigitChars[i] = ch) - 1

RECURSIVE AtoiNat(_)
AtoiNat(digits) ==
    IF Len(digits) = 0 THEN 0
    ELSE 10 * AtoiNat(SubSeq(digits, 1, Len(digits) - 1))
           + DigitValue(digits[Len(digits)])

Atoi(s) ==
    IF ~AtoiOK(s) THEN [ok |-> FALSE, n |-> 0]
    ELSE [ok |-> TRUE,
          n |-> IF s[1] = "-" THEN 0 - AtoiNat(AtoiDigits(s)) ELSE AtoiNat(AtoiDigits(s))]

\* The byte of a character, for the characters the model's strings use.
Letters ==
    <<"a", "b", "c", "d", "e", "f", "g", "h", "i", "j", "k", "l", "m",
      "n", "o", "p", "q", "r", "s", "t", "u", "v", "w", "x", "y", "z">>

CharCode(ch) ==
    IF ch = "+" THEN 43
    ELSE IF ch = "-" THEN 45
    ELSE IF ch = "/" THEN 47
    ELSE IF ch \in Range(DigitChars) THEN 48 + DigitValue(ch)
    ELSE 96 + (CHOOSE i \in 1..26 : Letters[i] = ch)

\* Go's string comparison a > b: bytewise, a proper prefix is the smaller.
RECURSIVE StrGreater(_, _)
StrGreater(a, b) ==
    IF Len(a) = 0 THEN FALSE
    ELSE IF Len(b) = 0 THEN TRUE
    ELSE IF CharCode(a[1]) # CharCode(b[1]) THEN CharCode(a[1]) > CharCode(b[1])
    ELSE StrGreater(Tail(a), Tail(b))

\* fmt.Sprintf("%s/%s", projectID, secretID): the key of the secrets map.
Key(projectID, secretID) == projectID \o <<"/">> \o secretID

\* ------------------------------------------------------------------ inputs
\* (projectID, secretID) pairs the callers use.
Targets ==
    { <<<<"p">>, <<"s">>>> }

\* Payloads handed to AddSecretVersion: "abc" and the empty payload.
Payloads == { <<97, 98, 99>>, <<>> }

\* Version ids handed to the version operations: the sentinel, canonical
\* decimal ids and a non-canonical decimal.
VersionIDs ==
    { StrLatest, <<"1">>, <<"2">>, <<"0", "1">> }

\* Label maps handed to NewSecret (nil, or one label).
\* A label map is the set of its (key, value) pairs.
NilLabels == {}
LabelSets == { NilLabels, {<<"env", "dev">>} }

\* What time.Now() and the random source give at one moment: the creation
\* timestamp and the etag derived from them.  No operation of the store
\* reads either, and the model draws them from one moment.
Stamps == { [CreateTime |-> 1, Etag |-> "e1"] }

\* ------------------------------------------------------------------ errors
ErrNil == "nil"
ErrSecretNotFound == "secret not found"
ErrVersionNotFound == "version not found"
ErrSecretExists == "secret already exists"

\* ------------------------------------------------------------------ models
\* generateChecksum: both digests are functions of the payload alone.
generateChecksum(data) ==
    [Crc32c |-> <<"crc32.ChecksumIEEE", data>>, Sha256 |-> <<"sha256.Sum256", data>>]

\* NewSecret with the counter starting at 1 instead of 0.
NewSecretCountFromOne(projectID, secretID, labels, stamp) ==
    [ Name         |-> StrProjects \o projectID \o StrSecrets \o secretID,
      CreateTime   |-> stamp.CreateTime,
      Labels       |-> labels,
      Replication  |-> "automatic",
      Etag         |-> stamp.Etag,
      Versions     |-> <<>>,
      VersionCount |-> 1 ]

\* models.NewSecret
NewSecret(projectID, secretID, labels, stamp) ==
    [ Name         |-> StrProjects \o projectID \o StrSecrets \o secretID,
      CreateTime   |-> stamp.CreateTime,
      Labels       |-> labels,
      Replication  |-> "automatic",
      Etag         |-> stamp.Etag,
      Versions     |-> <<>>,
      VersionCount |-> 0 ]

\* SecretVersion.GetVersionID: the text after the last "/versions/" of the
\* name that has at least one character after it, "" when there is none.
GetVersionID(name) ==
    LET n == Len(StrVersions)
        at == { i \in 0..(Len(name) - 1) :
                  /\ i + n < Len(name)
                  /\ SubSeq(name, i + 1, i + n) = StrVersions }
    IN  IF at = {} THEN <<>>
        ELSE LET last == CHOOSE i \in at : \A j \in at : j <= i
             IN  SubSeq(name, last + n + 1, Len(name))

\* models.NewSecretVersion
NewSecretVersion(projectID, secretID, versionID, data, stamp) ==
    [ Name       |-> StrProjects \o projectID \o StrSecrets \o secretID
                       \o StrVersions \o versionID,
      CreateTime |-> stamp.CreateTime,
      State      |-> "ENABLED",
      Etag       |-> stamp.Etag,
      Data       |-> data,
      Checksum   |-> generateChecksum(data) ]

\* ------------------------------------------------------------------- state
VARIABLES
    secrets,   \* MemoryStorage.secrets: map key -> Secret
    mu,        \* MemoryStorage.mu: the holder of the write lock, the readers
    pc,        \* per goroutine: where it is in its store call
    call,      \* per goroutine: the call it is in, with its arguments
    ret,       \* per goroutine: what its last call returned, until its next call
    issued     \* history: per stored secret, the version ids its successful
               \* AddSecretVersion calls returned since it was created, in order

\* The persistent variant and the callers that page through a listing.
VARIABLES
    pmu,       \* PersistentStorage.mu: the holder of the write lock, the readers
    file,      \* what is at PersistentStorage.filePath
    ppc,       \* per goroutine: where it is in its PersistentStorage call
    pcall,     \* per goroutine: the PersistentStorage call it is in
    pret,      \* per goroutine: what its last PersistentStorage call returned
    list       \* the enumeration a caller of ListSecrets / ListSecretVersions is in

\* The HTTP layer in front of the store.
VARIABLES
    hpc,       \* per goroutine: where it is in the request it serves
    req,       \* per goroutine: the request it serves
    resp       \* per goroutine: the response to the last request it served

mvars == <<secrets, mu, pc, call, ret, issued>>
pvars == <<pmu, file, ppc, pcall, pret>>
hvars == <<hpc, req, resp>>
vars == <<mvars, pvars, list, hvars>>

NoGoroutine == "none"
NoCall == [op |-> "none"]
NoRet == [op |-> "none", err |-> "none"]

\* The main goroutine, which loads the store before the server's goroutines
\* run and closes it after them.
MainGoroutine == "main"
Processes == Goroutines \cup {MainGoroutine}

\* The backing file when there is none.
FileAbsent == [kind |-> "absent"]
\* No enumeration under way.
NoList ==
    [op |-> "none", pageSize |-> 0, token |-> <<>>, got |-> <<>>,
     calls |-> 0, more |-> FALSE, err |-> ErrNil]

\* NewMemoryStorage, no call in flight.
NewMemoryStorage ==
    /\ secrets = <<>>
    /\ mu = [writer |-> NoGoroutine, readers |-> {}]
    /\ pc = [g \in Goroutines |-> "idle"]
    /\ call = [g \in Goroutines |-> NoCall]
    /\ ret = [g \in Goroutines |-> NoRet]
    /\ issued = <<>>

\* The zero PersistentStorage.mu, no PersistentStorage call in flight.
NoPersistentCall ==
    /\ pmu = [writer |-> NoGoroutine, readers |-> {}]
    /\ ppc = [g \in Processes |-> "idle"]
    /\ pcall = [g \in Processes |-> NoCall]
    /\ pret = [g \in Processes |-> NoRet]

\* No request being served, none answered.
NoRequest == [method |-> "none"]
NoResponse == [status |-> 0]
NoServing ==
    /\ hpc = [g \in Goroutines |-> "idle"]
    /\ req = [g \in Goroutines |-> NoRequest]
    /\ resp = [g \in Goroutines |-> NoResponse]

\* The store of the in-memory variant: no backing file, no listing caller.
Init ==
    /\ NewMemoryStorage
    /\ NoPersistentCall
    /\ file = FileAbsent
    /\ list = NoList
    /\ NoServing

\* Map helpers: a Go map is a function on its set of keys.
MapHas(m, k) == k \in DOMAIN m
MapPut(m, k, v) == [x \in (DOMAIN m) \cup {k} |-> IF x = k THEN v ELSE m[x]]
MapDelete(m, k) == [x \in (DOMAIN m) \ {k} |-> m[x]]

\* ---------------------------------------------------------------- the lock
\* sync.RWMutex.Lock proceeds when no goroutine holds the lock in any mode.
CanLock(m) == m.writer = NoGoroutine /\ m.readers = {}
\* sync.RWMutex.RLock proceeds when no goroutine holds the write lock.
CanRLock(m) == m.writer = NoGoroutine

\* m.mu.Lock() at the head of a mutating operation, entered with call c.
Lock(g, c) ==
    /\ pc[g] = "idle"
    /\ CanLock(mu)
    /\ mu' = [mu EXCEPT !.writer = g]
    /\ pc' = [pc EXCEPT ![g] = "locked"]
    /\ call' = [call EXCEPT ![g] = c]
    /\ ret' = [ret EXCEPT ![g] = NoRet]
    /\ UNCHANGED <<secrets, issued>>

\* m.mu.RLock() at the head of a read-only operation, entered with call c.
RLock(g, c) ==
    /\ pc[g] = "idle"
    /\ CanRLock(mu)
    /\ mu' = [mu EXCEPT !.readers = @ \cup {g}]
    /\ pc' = [pc EXCEPT ![g] = "rlocked"]
    /\ call' = [call EXCEPT ![g] = c]
    /\ ret' = [ret EXCEPT ![g] = NoRet]
    /\ UNCHANGED <<secrets, issued>>

\* The result r of a call, tagged with the operation that returned it.
WithOp(op, r) == [f \in (DOMAIN r) \cup {"op"} |-> IF f = "op" THEN op ELSE r[f]]

\* defer m.mu.Unlock() / defer m.mu.RUnlock(), run as the operation returns r.
UnlockAndReturn(g, r) ==
    /\ mu' = [writer |-> IF mu.writer = g THEN NoGoroutine ELSE mu.writer,
              readers |-> mu.readers \ {g}]
    /\ pc' = [pc EXCEPT ![g] = "idle"]
    /\ call' = [call EXCEPT ![g] = NoCall]
    /\ ret' = [ret EXCEPT ![g] = WithOp(call[g].op, r)]

\* ------------------------------------------------------------ CreateSecret
\* CreateSecret that stores the secret before it reports the collision.
CreateSecretOverwriting(s, projectID, secretID, secret) ==
    LET key == Key(projectID, secretID) IN
    [secrets |-> MapPut(s, key, secret),
     err |-> IF MapHas(s, key) THEN ErrSecretExists ELSE ErrNil]

\* The body of CreateSecret on the map s: the map afterwards and the error.
CreateSecretOn(s, projectID, secretID, secret) ==
    LET key == Key(projectID, secretID) IN
    IF MapHas(s, key)
    THEN [secrets |-> s, err |-> ErrSecretExists]
    ELSE [secrets |-> MapPut(s, key, secret), err |-> ErrNil]

CreateSecretLock(g) ==
    \E t \in Targets, labels \in LabelSets, stamp \in Stamps :
        Lock(g, [op |-> "CreateSecret", projectID |-> t[1], secretID |-> t[2],
                 secret |-> NewSecret(t[1], t[2], labels, stamp)])

CreateSecret(g) ==
    /\ pc[g] = "locked" /\ call[g].op = "CreateSecret"
    /\ LET r == CreateSecretOn(secrets, call[g].projectID, call[g].secretID,
                               call[g].secret) IN
        /\ secrets' = r.secrets
        /\ issued' = IF r.err = ErrNil
                     THEN MapPut(issued, Key(call[g].projectID, call[g].secretID), <<>>)
                     ELSE issued
        /\ UnlockAndReturn(g, [err |-> r.err])

\* --------------------------------------------------------------- GetSecret
\* The fields of a Secret that its JSON form carries (Versions and
\* VersionCount are tagged json:"-").
Metadata(secret) ==
    [ Name        |-> secret.Name,
      CreateTime  |-> secret.CreateTime,
      Labels      |-> secret.Labels,
      Replication |-> secret.Replication,
      Etag        |-> secret.Etag ]

\* The caller of GetSecret is given the stored secret; the result records
\* its metadata.
GetSecretOn(s, projectID, secretID) ==
    LET key == Key(projectID, secretID) IN
    IF ~MapHas(s, key)
    THEN [err |-> ErrSecretNotFound]
    ELSE [err |-> ErrNil, secret |-> Metadata(s[key])]

GetSecretRLock(g) ==
    \E t \in Targets :
        RLock(g, [op |-> "GetSecret", projectID |-> t[1], secretID |-> t[2]])

GetSecret(g) ==
    /\ pc[g] = "rlocked" /\ call[g].op = "GetSecret"
    /\ UNCHANGED <<secrets, issued>>
    /\ UnlockAndReturn(g, GetSecretOn(secrets, call[g].projectID, call[g].secretID))

\* ------------------------------------------------------------ DeleteSecret
\* DeleteSecret that drops the versions and leaves the map entry.
DeleteSecretOnlyVersions(s, projectID, secretID) ==
    LET key == Key(projectID, secretID) IN
    IF ~MapHas(s, key)
    THEN [secrets |-> s, err |-> ErrSecretNotFound]
    ELSE [secrets |-> [s EXCEPT ![key].Versions = <<>>], err |-> ErrNil]

DeleteSecretOn(s, projectID, secretID) ==
    LET key == Key(projectID, secretID) IN
    IF ~MapHas(s, key)
    THEN [secrets |-> s, err |-> ErrSecretNotFound]
    ELSE [secrets |-> MapDelete(s, key), err |-> ErrNil]

DeleteSecretLock(g) ==
    \E t \in Targets :
        Lock(g, [op |-> "DeleteSecret", projectID |-> t[1], secretID |-> t[2]])

DeleteSecret(g) ==
    /\ pc[g] = "locked" /\ call[g].op = "DeleteSecret"
    /\ LET r == DeleteSecretOn(secrets, call[g].projectID, call[g].secretID) IN
        /\ secrets' = r.secrets
        /\ issued' = IF r.err = ErrNil
                     THEN MapDelete(issued, Key(call[g].projectID, call[g].secretID))
                     ELSE issued
        /\ UnlockAndReturn(g, [err |-> r.err])

\* -------------------------------------------------------- AddSecretVersion
\* AddSecretVersion that creates the secret it does not find.
AddSecretVersionIncrCreating(s, projectID, secretID) ==
    LET key == Key(projectID, secretID)
        fresh == NewSecret(projectID, secretID, NilLabels, CHOOSE st \in Stamps : TRUE)
    IN  IF ~MapHas(s, key)
        THEN [secrets |-> MapPut(s, key, [fresh EXCEPT !.VersionCount = 1]), err |-> ErrNil]
        ELSE [secrets |-> [s EXCEPT ![key].VersionCount = @ + 1], err |-> ErrNil]

\* Lines 287-293: the lookup and secret.VersionCount++.
AddSecretVersionIncrOn(s, projectID, secretID) ==
    LET key == Key(projectID, secretID) IN
    IF ~MapHas(s, key)
    THEN [secrets |-> s, err |-> ErrSecretNotFound]
    ELSE [secrets |-> [s EXCEPT ![key].VersionCount = @ + 1], err |-> ErrNil]

\* AddSecretVersion that numbers the new version len(Versions)+1.
AddSecretVersionStoreByLen(s, projectID, secretID, data, stamp) ==
    LET key == Key(projectID, secretID)
        versionID == Itoa(Cardinality(DOMAIN s[key].Versions) + 1)
        version == NewSecretVersion(projectID, secretID, versionID, data, stamp)
    IN  [secrets |-> [s EXCEPT ![key].Versions = MapPut(@, versionID, version)],
         versionID |-> versionID,
         version |-> version]

\* Lines 294-299: the id is the text of the counter, the version is built
\* and stored under it.
AddSecretVersionStoreOn(s, projectID, secretID, data, stamp) ==
    LET key == Key(projectID, secretID)
        versionID == Itoa(s[key].VersionCount)
        version == NewSecretVersion(projectID, secretID, versionID, data, stamp)
    IN  [secrets |-> [s EXCEPT ![key].Versions = MapPut(@, versionID, version)],
         versionID |-> versionID,
         version |-> version]

\* AddSecretVersion that takes the read lock instead of the write lock.
AddSecretVersionUnderRLock(g) ==
    \E t \in Targets, data \in Payloads :
        /\ MapHas(secrets, Key(t[1], t[2]))
              => secrets[Key(t[1], t[2])].VersionCount < MaxVersionCount
        /\ pc[g] = "idle"
        /\ CanRLock(mu)
        /\ mu' = [mu EXCEPT !.readers = @ \cup {g}]
        /\ pc' = [pc EXCEPT ![g] = "locked"]
        /\ call' = [call EXCEPT ![g] = [op |-> "AddSecretVersion", projectID |-> t[1],
                                        secretID |-> t[2], data |-> data]]
        /\ ret' = [ret EXCEPT ![g] = NoRet]
        /\ UNCHANGED <<secrets, issued>>

\* Lines 284-285 of AddSecretVersion, entered with its arguments.
AddSecretVersionLock(g) ==
    \E t \in Targets, data \in Payloads :
        /\ MapHas(secrets, Key(t[1], t[2]))
              => secrets[Key(t[1], t[2])].VersionCount < MaxVersionCount
        /\ Lock(g, [op |-> "AddSecretVersion", projectID |-> t[1],
                    secretID |-> t[2], data |-> data])

AddSecretVersionIncr(g) ==
    /\ pc[g] = "locked" /\ call[g].op = "AddSecretVersion"
    /\ LET r == AddSecretVersionIncrOn(secrets, call[g].projectID, call[g].secretID) IN
        /\ secrets' = r.secrets
        /\ IF r.err # ErrNil
           THEN UnlockAndReturn(g, [err |-> r.err])
           ELSE /\ pc' = [pc EXCEPT ![g] = "incremented"]
                /\ UNCHANGED <<mu, call, ret>>
    /\ UNCHANGED issued

AddSecretVersion(g) ==
    /\ pc[g] = "incremented" /\ call[g].op = "AddSecretVersion"
    /\ \E stamp \in Stamps :
        LET r == AddSecretVersionStoreOn(secrets, call[g].projectID,
                     call[g].secretID, call[g].data, stamp)
            key == Key(call[g].projectID, call[g].secretID)
        IN  /\ secrets' = r.secrets
            /\ issued' = [issued EXCEPT ![key] = Append(@, r.versionID)]
            /\ UnlockAndReturn(g, [err |-> ErrNil, versionID |-> r.versionID,
                                   version |-> r.version])

\* -------------------------------------------------------- GetSecretVersion
\* GetSecretVersion that resolves "latest" to the highest stored id.
GetSecretVersionLatestStored(s, projectID, secretID, versionID) ==
    LET key == Key(projectID, secretID) IN
    IF ~MapHas(s, key)
    THEN [err |-> ErrSecretNotFound]
    ELSE LET stored == { n \in 1..s[key].VersionCount : MapHas(s[key].Versions, Itoa(n)) }
             resolved == IF versionID # StrLatest THEN versionID
                         ELSE IF stored = {} THEN Itoa(0)
                         ELSE Itoa(CHOOSE n \in stored : \A m \in stored : m <= n)
         IN  IF ~MapHas(s[key].Versions, resolved)
             THEN [err |-> ErrVersionNotFound]
             ELSE [err |-> ErrNil, version |-> s[key].Versions[resolved]]

GetSecretVersionOn(s, projectID, secretID, versionID) ==
    LET key == Key(projectID, secretID) IN
    IF ~MapHas(s, key)
    THEN [err |-> ErrSecretNotFound]
    ELSE IF versionID = StrLatest /\ s[key].VersionCount = 0
    THEN [err |-> ErrVersionNotFound]
    ELSE LET resolved == IF versionID = StrLatest
                         THEN Itoa(s[key].VersionCount)
                         ELSE versionID
         IN  IF ~MapHas(s[key].Versions, resolved)
             THEN [err |-> ErrVersionNotFound]
             ELSE [err |-> ErrNil, version |-> s[key].Versions[resolved]]

GetSecretVersionRLock(g) ==
    \E t \in Targets, v \in VersionIDs :
        RLock(g, [op |-> "GetSecretVersion", projectID |-> t[1],
                  secretID |-> t[2], versionID |-> v])

GetSecretVersion(g) ==
    /\ pc[g] = "rlocked" /\ call[g].op = "GetSecretVersion"
    /\ UNCHANGED <<secrets, issued>>
    /\ UnlockAndReturn(g, GetSecretVersionOn(secrets, call[g].projectID,
                              call[g].secretID, call[g].versionID))

\* ------------------------------------------------------ ListSecretVersions
\* The store's page size when the caller gives none.
DefaultPageSize == 100
\* The largest page size the callers of the model ask for.
MaxPageSize == 3

\* The comparison by the text of the ids alone.
VersionBeforeLexical(a, b) ==
    StrGreater(GetVersionID(a.Name), GetVersionID(b.Name))

\* The comparison handed to sort.Slice: newest first, by number when both
\* ids are numbers and by text otherwise.
VersionBefore(a, b) ==
    LET iVersion == GetVersionID(a.Name)
        jVersion == GetVersionID(b.Name)
    IN  IF Atoi(iVersion).ok /\ Atoi(jVersion).ok
        THEN Atoi(iVersion).n > Atoi(jVersion).n
        ELSE StrGreater(iVersion, jVersion)

\* What sort.Slice may leave: the orderings of the versions in which no
\* version stands before one that must come before it.
SortedVersions(versions) ==
    LET n == Cardinality(versions) IN
    { seq \in [1..n -> versions] :
        /\ \A i, j \in 1..n : i # j => seq[i] # seq[j]
        /\ \A i, j \in 1..n : i < j => ~VersionBefore(seq[j], seq[i]) }

\* Paging whose token names the last item returned instead of the end offset.
PageTokenOfLastItem(sorted, pageSize, pageToken) ==
    LET len == Len(sorted)
        start == IF pageToken # <<>> /\ Atoi(pageToken).ok
                    /\ Atoi(pageToken).n >= 0 /\ Atoi(pageToken).n < len
                 THEN Atoi(pageToken).n ELSE 0
        size == IF pageSize <= 0 THEN DefaultPageSize ELSE pageSize
        end == IF start + size > len THEN len ELSE start + size
    IN  [items |-> SubSeq(sorted, start + 1, end),
         nextPageToken |-> IF end < len THEN Itoa(end - 1) ELSE <<>>]

\* Lines 241-265 and 357-381: the page of the sorted list that the size and
\* the token select, and the token of the page after it.
Page(sorted, pageSize, pageToken) ==
    LET len == Len(sorted)
        start == IF pageToken # <<>> /\ Atoi(pageToken).ok
                    /\ Atoi(pageToken).n >= 0 /\ Atoi(pageToken).n < len
                 THEN Atoi(pageToken).n ELSE 0
        size == IF pageSize <= 0 THEN DefaultPageSize ELSE pageSize
        end == IF start + size > len THEN len ELSE start + size
    IN  [items |-> SubSeq(sorted, start + 1, end),
         nextPageToken |-> IF end < len THEN Itoa(end) ELSE <<>>]

\* The results ListSecretVersions can return: one page per ordering the
\* sort may leave.
ListSecretVersionsOn(s, projectID, secretID, pageSize, pageToken) ==
    LET key == Key(projectID, secretID) IN
    IF ~MapHas(s, key)
    THEN [err |-> ErrSecretNotFound]
    ELSE [err |-> ErrNil,
          pages |-> { Page(sorted, pageSize, pageToken) :
                        sorted \in SortedVersions(
                            { s[key].Versions[v] : v \in DOMAIN s[key].Versions }) }]

\* The goroutine that pages through a listing.
ListCaller == CHOOSE g \in Goroutines : TRUE

\* The page sizes a caller asks for: 0 (none given) .. MaxPageSize.
PageSizes == 0..MaxPageSize

\* The caller's bookkeeping when it starts an enumeration with the empty token.
NewList(op, pageSize) ==
    [op |-> op, pageSize |-> pageSize, token |-> <<>>, got |-> <<>>,
     calls |-> 0, more |-> TRUE, err |-> ErrNil]

\* The caller's bookkeeping after a call returned r: the items are appended
\* and the returned token is the one to pass next.
ListAfter(l, r) ==
    IF r.err # ErrNil
    THEN [l EXCEPT !.calls = @ + 1, !.more = FALSE, !.err = r.err]
    ELSE [l EXCEPT !.got = @ \o r.items, !.calls = @ + 1,
                   !.token = r.nextPageToken, !.more = (r.nextPageToken # <<>>)]

\* The caller either starts an enumeration of op (empty token, any page size)
\* or goes on with the one it is in, passing the token it was given.
ListCall(op, pageSize, pageToken) ==
    \/ /\ list.op = "none" \/ ~list.more
       /\ pageToken = <<>>
       /\ list' = NewList(op, pageSize)
    \/ /\ list.op = op /\ list.more
       /\ pageSize = list.pageSize /\ pageToken = list.token
       /\ list' = list

ListSecretVersionsRLock(g) ==
    \E t \in Targets, pageSize \in PageSizes, pageToken \in {<<>>, list.token} :
        /\ ListCall("ListSecretVersions", pageSize, pageToken)
        /\ RLock(g, [op |-> "ListSecretVersions", projectID |-> t[1],
                     secretID |-> t[2], pageSize |-> pageSize,
                     pageToken |-> pageToken])

ListSecretVersions(g) ==
    /\ pc[g] = "rlocked" /\ call[g].op = "ListSecretVersions"
    /\ UNCHANGED <<secrets, issued>>
    /\ LET r == ListSecretVersionsOn(secrets, call[g].projectID, call[g].secretID,
                                     call[g].pageSize, call[g].pageToken) IN
        IF r.err # ErrNil
        THEN /\ UnlockAndReturn(g, r)
             /\ list' = ListAfter(list, r)
        ELSE \E page \in r.pages :
               LET result == [err |-> ErrNil, items |-> page.items,
                              nextPageToken |-> page.nextPageToken] IN
               /\ UnlockAndReturn(g, result)
               /\ list' = ListAfter(list, result)

\* ------------------------------------------------------------- ListSecrets
\* strings.HasPrefix
HasPrefix(s, prefix) ==
    Len(s) >= Len(prefix) /\ SubSeq(s, 1, Len(prefix)) = prefix

\* What sort.Slice may leave of the secrets under the keys: the orderings in
\* which no secret stands before one whose Name is smaller.
SortedSecrets(s, keys) ==
    LET n == Cardinality(keys) IN
    { [i \in 1..n |-> s[seq[i]]] :
        seq \in { q \in [1..n -> keys] :
                    /\ \A i, j \in 1..n : i # j => q[i] # q[j]
                    /\ \A i, j \in 1..n :
                         i < j => ~StrGreater(s[q[i]].Name, s[q[j]].Name) } }

\* The results ListSecrets can return: one page per ordering the sort may
\* leave of the secrets whose key starts with projectID + "/".
ListSecretsOn(s, projectID, pageSize, pageToken) ==
    LET prefix == projectID \o <<"/">>
        keys == { key \in DOMAIN s : HasPrefix(key, prefix) }
    IN  [err |-> ErrNil,
         pages |-> { Page(sorted, pageSize, pageToken) :
                       sorted \in SortedSecrets(s, keys) }]

ListSecretsRLock(g) ==
    \E t \in Targets, pageSize \in PageSizes, pageToken \in {<<>>, list.token} :
        /\ ListCall("ListSecrets", pageSize, pageToken)
        /\ RLock(g, [op |-> "ListSecrets", projectID |-> t[1],
                     pageSize |-> pageSize, pageToken |-> pageToken])

ListSecrets(g) ==
    /\ pc[g] = "rlocked" /\ call[g].op = "ListSecrets"
    /\ UNCHANGED <<secrets, issued>>
    /\ \E page \in ListSecretsOn(secrets, call[g].projectID, call[g].pageSize,
                                  call[g].pageToken).pages :
         LET result == [err |-> ErrNil, items |-> page.items,
                        nextPageToken |-> page.nextPageToken] IN
         /\ UnlockAndReturn(g, result)
         /\ list' = ListAfter(list, result)

\* ----------------------------------------------------- DeleteSecretVersion
\* DeleteSecretVersion that resolves "latest" the way GetSecretVersion does.
DeleteSecretVersionResolvingLatest(s, projectID, secretID, versionID) ==
    LET key == Key(projectID, secretID) IN
    IF ~MapHas(s, key)
    THEN [secrets |-> s, err |-> ErrSecretNotFound]
    ELSE LET resolved == IF versionID = StrLatest
                         THEN Itoa(s[key].VersionCount)
                         ELSE versionID
         IN  IF ~MapHas(s[key].Versions, resolved)
             THEN [secrets |-> s, err |-> ErrVersionNotFound]
             ELSE [secrets |-> [s EXCEPT ![key].Versions = MapDelete(@, resolved)],
                   err |-> ErrNil]

\* DeleteSecretVersion that empties the secret's versions before it reports
\* that the version is not there.
DeleteSecretVersionClearing(s, projectID, secretID, versionID) ==
    LET key == Key(projectID, secretID) IN
    IF ~MapHas(s, key)
    THEN [secrets |-> s, err |-> ErrSecretNotFound]
    ELSE IF ~MapHas(s[key].Versions, versionID)
    THEN [secrets |-> [s EXCEPT ![key].Versions = <<>>], err |-> ErrVersionNotFound]
    ELSE [secrets |-> [s EXCEPT ![key].Versions = MapDelete(@, versionID)],
          err |-> ErrNil]

\* The body of DeleteSecretVersion on the map s (lines 388-400).
DeleteSecretVersionOn(s, projectID, secretID, versionID) ==
    LET key == Key(projectID, secretID) IN
    IF ~MapHas(s, key)
    THEN [secrets |-> s, err |-> ErrSecretNotFound]
    ELSE IF ~MapHas(s[key].Versions, versionID)
    THEN [secrets |-> s, err |-> ErrVersionNotFound]
    ELSE [secrets |-> [s EXCEPT ![key].Versions = MapDelete(@, versionID)],
          err |-> ErrNil]

DeleteSecretVersionLock(g) ==
    \E t \in Targets, v \in VersionIDs :
        Lock(g, [op |-> "DeleteSecretVersion", projectID |-> t[1],
                 secretID |-> t[2], versionID |-> v])

DeleteSecretVersion(g) ==
    /\ pc[g] = "locked" /\ call[g].op = "DeleteSecretVersion"
    /\ LET r == DeleteSecretVersionOn(secrets, call[g].projectID,
                     call[g].secretID, call[g].versionID) IN
        /\ secrets' = r.secrets
        /\ UnlockAndReturn(g, [err |-> r.err])
    /\ UNCHANGED issued

\* ----------------------------------------------------- AccessSecretVersion
\* AccessSecretVersion that reads the latest version whatever id it is given.
AccessSecretVersionOfLatest(s, projectID, secretID, versionID) ==
    LET got == GetSecretVersionOn(s, projectID, secretID, StrLatest) IN
    IF got.err # ErrNil
    THEN [err |-> got.err]
    ELSE [err |-> ErrNil, data |-> got.version.Data]

\* AccessSecretVersion that answers a missing version with empty data.
AccessSecretVersionSwallowing(s, projectID, secretID, versionID) ==
    LET got == GetSecretVersionOn(s, projectID, secretID, versionID) IN
    IF got.err = ErrSecretNotFound
    THEN [err |-> got.err]
    ELSE IF got.err = ErrVersionNotFound
    THEN [err |-> ErrNil, data |-> <<>>]
    ELSE [err |-> ErrNil, data |-> got.version.Data]

\* AccessSecretVersion calls GetSecretVersion (which takes and releases the
\* read lock) and returns the Data of the version it got.
AccessSecretVersionOn(s, projectID, secretID, versionID) ==
    LET got == GetSecretVersionOn(s, projectID, secretID, versionID) IN
    IF got.err # ErrNil
    THEN [err |-> got.err]
    ELSE [err |-> ErrNil, data |-> got.version.Data]

AccessSecretVersionRLock(g) ==
    \E t \in Targets, v \in VersionIDs :
        RLock(g, [op |-> "AccessSecretVersion", projectID |-> t[1],
                  secretID |-> t[2], versionID |-> v])

AccessSecretVersion(g) ==
    /\ pc[g] = "rlocked" /\ call[g].op = "AccessSecretVersion"
    /\ UNCHANGED <<secrets, issued>>
    /\ UnlockAndReturn(g, AccessSecretVersionOn(secrets, call[g].projectID,
                              call[g].secretID, call[g].versionID))

\* ----------------------------------------------------------- specification
\* The in-memory variant: its goroutines call MemoryStorage directly.
Next ==
    \E g \in Goroutines :
        \/ CreateSecretLock(g) /\ UNCHANGED <<pvars, list, hvars>>
        \/ CreateSecret(g) /\ UNCHANGED <<pvars, list, hvars>>
        \/ GetSecretRLock(g) /\ UNCHANGED <<pvars, list, hvars>>
        \/ GetSecret(g) /\ UNCHANGED <<pvars, list, hvars>>
        \/ DeleteSecretLock(g) /\ UNCHANGED <<pvars, list, hvars>>
        \/ DeleteSecret(g) /\ UNCHANGED <<pvars, list, hvars>>
        \/ AddSecretVersionLock(g) /\ UNCHANGED <<pvars, list, hvars>>
        \/ AddSecretVersionIncr(g) /\ UNCHANGED <<pvars, list, hvars>>
        \/ AddSecretVersion(g) /\ UNCHANGED <<pvars, list, hvars>>
        \/ GetSecretVersionRLock(g) /\ UNCHANGED <<pvars, list, hvars>>
        \/ GetSecretVersion(g) /\ UNCHANGED <<pvars, list, hvars>>
        \/ DeleteSecretVersionLock(g) /\ UNCHANGED <<pvars, list, hvars>>
        \/ DeleteSecretVersion(g) /\ UNCHANGED <<pvars, list, hvars>>
        \/ AccessSecretVersionRLock(g) /\ UNCHANGED <<pvars, list, hvars>>
        \/ AccessSecretVersion(g) /\ UNCHANGED <<pvars, list, hvars>>

Spec == Init /\ [][Next]_vars

\* ------------------------------------------------------- PersistentStorage
\* A file that exists and cannot be read, one that is read and does not
\* parse, and one that holds the JSON data.
FileUnreadable == [kind |-> "unreadable"]
FileGarbage == [kind |-> "garbage"]
FileSnapshot(data) == [kind |-> "snapshot", data |-> data]

ErrReadFile == "failed to read storage file"
ErrParseFile == "failed to parse storage file"
ErrWriteFile == "failed to write storage file"

\* json.MarshalIndent of Data{Secrets: s, ...}: per key the fields of the
\* Secret that carry a JSON name.  Versions and VersionCount are tagged
\* json:"-" and are left out.
MarshalIndent(s) == [key \in DOMAIN s |-> Metadata(s[key])]

\* A map that was never made: it reads as an empty map.
NilVersions == <<>>

\* json.Unmarshal into Data, .Secrets: the fields absent from the JSON keep
\* their zero values.
Unmarshal(data) ==
    [key \in DOMAIN data |->
        [ Name         |-> data[key].Name,
          CreateTime   |-> data[key].CreateTime,
          Labels       |-> data[key].Labels,
          Replication  |-> data[key].Replication,
          Etag         |-> data[key].Etag,
          Versions     |-> NilVersions,
          VersionCount |-> 0 ]]

\* The server's goroutines call the store once main has loaded it.
Serving == ppc[MainGoroutine] = "serving"

\* A PersistentStorage call of goroutine g returns r.
PersistentReturn(g, r) ==
    /\ ppc' = [ppc EXCEPT ![g] = IF g # MainGoroutine THEN "idle"
                                 ELSE IF pcall[g].op = "Load" THEN "serving"
                                 ELSE "closed"]
    /\ pret' = [pret EXCEPT ![g] = WithOp(pcall[g].op, r)]
    /\ pcall' = [pcall EXCEPT ![g] = NoCall]

\* ------------------------------------------------------------------- Load
\* Load that reports success when the file does not parse.
LoadIgnoringParseError(f) ==
    IF f.kind = "unreadable" THEN [err |-> ErrReadFile, replace |-> FALSE]
    ELSE [err |-> ErrNil, replace |-> FALSE]

\* Lines 41-53 of Load on the file f: the error returned, or that the
\* parsed data is to replace the map.
LoadOn(f) ==
    IF f.kind = "absent" THEN [err |-> ErrNil, replace |-> FALSE]
    ELSE IF f.kind = "unreadable" THEN [err |-> ErrReadFile, replace |-> FALSE]
    ELSE IF f.kind = "garbage" THEN [err |-> ErrParseFile, replace |-> FALSE]
    ELSE [err |-> ErrNil, replace |-> TRUE]

\* main calls Load: p.mu.Lock() of line 38.
LoadLock(g) ==
    /\ ppc[g] = "start"
    /\ CanLock(pmu)
    /\ pmu' = [pmu EXCEPT !.writer = g]
    /\ ppc' = [ppc EXCEPT ![g] = "Load.locked"]
    /\ pcall' = [pcall EXCEPT ![g] = [op |-> "Load"]]
    /\ UNCHANGED <<mvars, file, pret, list, hvars>>

\* The rest of Load.  Without data to install it returns, which runs the
\* deferred Unlock.  With data it calls p.mu.Lock() a second time (line 55):
\* when the lock can be had it installs the data, unlocks and returns,
\* otherwise the goroutine waits at line 55.
Load(g) ==
    /\ ppc[g] \in {"Load.locked", "Load.waiting"}
    /\ LET r == LoadOn(file) IN
        IF ~r.replace
        THEN /\ pmu' = [pmu EXCEPT !.writer = NoGoroutine]
             /\ PersistentReturn(g, [err |-> r.err])
             /\ UNCHANGED <<mvars, file, list, hvars>>
        ELSE IF CanLock(pmu)
        THEN /\ secrets' = Unmarshal(file.data)
             /\ issued' = [key \in DOMAIN file.data |-> <<>>]
             /\ pmu' = [pmu EXCEPT !.writer = NoGoroutine]
             /\ PersistentReturn(g, [err |-> ErrNil])
             /\ UNCHANGED <<mu, pc, call, ret, file, list, hvars>>
        ELSE /\ ppc' = [ppc EXCEPT ![g] = "Load.waiting"]
             /\ UNCHANGED <<mvars, pmu, file, pcall, pret, list, hvars>>

\* ------------------------------------------------------------------- Save
\* p.mu.Lock() of line 64.
SaveLock(g) ==
    /\ ppc[g] = "Save"
    /\ CanLock(pmu)
    /\ pmu' = [pmu EXCEPT !.writer = g]
    /\ ppc' = [ppc EXCEPT ![g] = "Save.locked"]
    /\ UNCHANGED <<mvars, file, pcall, pret, list, hvars>>

\* p.mu.RLock() of line 67: the goroutine goes on when no goroutine holds
\* the write lock and waits at line 67 otherwise.
SaveRLock(g) ==
    /\ ppc[g] \in {"Save.locked", "Save.waiting"}
    /\ IF CanRLock(pmu)
       THEN /\ pmu' = [pmu EXCEPT !.readers = @ \cup {g}]
            /\ ppc' = [ppc EXCEPT ![g] = "Save.rlocked"]
       ELSE /\ ppc' = [ppc EXCEPT ![g] = "Save.waiting"]
            /\ UNCHANGED pmu
    /\ UNCHANGED <<mvars, file, pcall, pret, list, hvars>>

\* ------------------------------------------------------------------ Close
\* main calls Close, which calls Save.
Close(g) ==
    /\ g = MainGoroutine /\ ppc[g] = "serving"
    /\ ppc' = [ppc EXCEPT ![g] = "Save"]
    /\ pcall' = [pcall EXCEPT ![g] = [op |-> "Close"]]
    /\ pret' = [pret EXCEPT ![g] = NoRet]
    /\ UNCHANGED <<mvars, pmu, file, list, hvars>>

\* ------------------------------------------- PersistentStorage's operations
\* A server goroutine enters a PersistentStorage operation, which first calls
\* the MemoryStorage operation of the same name with its own arguments.
PersistentEnter(g) ==
    /\ ppc[g] = "idle" /\ Serving
    /\ ppc' = [ppc EXCEPT ![g] = "inner"]
    /\ pcall' = [pcall EXCEPT ![g] = call'[g]]
    /\ pret' = [pret EXCEPT ![g] = NoRet]
    /\ UNCHANGED <<pmu, file, list, hvars>>

\* After a step of the MemoryStorage operation: when it has returned an error
\* the PersistentStorage operation returns it, when it has returned without
\* one the operation goes on to call p.Save().
AfterInner(g) ==
    /\ ppc[g] = "inner"
    /\ IF pc'[g] # "idle"
       THEN UNCHANGED <<ppc, pcall, pret>>
       ELSE IF ret'[g].err # ErrNil
       THEN PersistentReturn(g, [err |-> ret'[g].err])
       ELSE /\ ppc' = [ppc EXCEPT ![g] = "Save"]
            /\ UNCHANGED <<pcall, pret>>
    /\ UNCHANGED <<pmu, file, list, hvars>>

PersistentCreateSecretCall(g) == CreateSecretLock(g) /\ PersistentEnter(g)
PersistentCreateSecret(g) == CreateSecret(g) /\ AfterInner(g)

PersistentDeleteSecretCall(g) == DeleteSecretLock(g) /\ PersistentEnter(g)
PersistentDeleteSecret(g) == DeleteSecret(g) /\ AfterInner(g)

\* (a secret is added to at most MaxVersionCount times)
PersistentAddSecretVersionCall(g) ==
    /\ \A key \in DOMAIN issued : Len(issued[key]) < MaxVersionCount
    /\ AddSecretVersionLock(g)
    /\ PersistentEnter(g)
PersistentAddSecretVersionIncr(g) == AddSecretVersionIncr(g) /\ AfterInner(g)
PersistentAddSecretVersion(g) == AddSecretVersion(g) /\ AfterInner(g)

PersistentDeleteSecretVersionCall(g) == DeleteSecretVersionLock(g) /\ PersistentEnter(g)
PersistentDeleteSecretVersion(g) == DeleteSecretVersion(g) /\ AfterInner(g)

\* A read-only operation that PersistentStorage would wrap the way it wraps
\* the mutating ones, going on to Save.
PromotedThroughSave(g) ==
    /\ ppc[g] = "idle" /\ Serving
    /\ ppc' = [ppc EXCEPT ![g] = "Save"]
    /\ UNCHANGED <<pmu, file, pcall, pret, list, hvars>>

\* A read-only operation, which PersistentStorage takes over from the
\* MemoryStorage it embeds, is entered by a server goroutine.
Promoted(g) == ppc[g] = "idle" /\ Serving /\ UNCHANGED <<pvars, list, hvars>>

\* ------------------------------------------------ the persistent variant
\* The files main may find at filePath.
StoredFiles ==
    { FileAbsent, FileUnreadable, FileGarbage, FileSnapshot(MarshalIndent(<<>>)) }
      \cup { FileSnapshot(MarshalIndent(
                 [key \in {Key(t[1], t[2])} |-> NewSecret(t[1], t[2], labels, stamp)])) :
               t \in Targets, labels \in LabelSets, stamp \in Stamps }

\* NewPersistentStorage, main about to call Load.
PersistentInit ==
    /\ NewMemoryStorage
    /\ pmu = [writer |-> NoGoroutine, readers |-> {}]
    /\ ppc = [g \in Processes |-> IF g = MainGoroutine THEN "start" ELSE "idle"]
    /\ pcall = [g \in Processes |-> NoCall]
    /\ pret = [g \in Processes |-> NoRet]
    /\ file \in StoredFiles
    /\ list = NoList
    /\ NoServing

\* main loads the store, the server's goroutines call it, main closes it.
PersistentNext ==
    \/ LoadLock(MainGoroutine)
    \/ Load(MainGoroutine)
    \/ Close(MainGoroutine)
    \/ \E g \in Processes : SaveLock(g) \/ SaveRLock(g)
    \/ \E g \in Goroutines :
        \/ PersistentCreateSecretCall(g) \/ PersistentCreateSecret(g)
        \/ PersistentDeleteSecretCall(g) \/ PersistentDeleteSecret(g)
        \/ PersistentAddSecretVersionCall(g) \/ PersistentAddSecretVersionIncr(g)
        \/ PersistentAddSecretVersion(g)
        \/ PersistentDeleteSecretVersionCall(g) \/ PersistentDeleteSecretVersion(g)
        \/ GetSecretRLock(g) /\ Promoted(g)
        \/ GetSecret(g) /\ UNCHANGED <<pvars, list, hvars>>
        \/ GetSecretVersionRLock(g) /\ Promoted(g)
        \/ GetSecretVersion(g) /\ UNCHANGED <<pvars, list, hvars>>
        \/ AccessSecretVersionRLock(g) /\ Promoted(g)
        \/ AccessSecretVersion(g) /\ UNCHANGED <<pvars, list, hvars>>

PersistentSpec == PersistentInit /\ [][PersistentNext]_vars

\* ------------------------------------------------- Save, past its locks
\* Save as written does not get past line 67.  Its callers are written for a
\* Save that takes its snapshot, writes it and returns the outcome of the
\* write; the actions below are the rest of Save and of its callers, entered
\* with the read lock of line 67 handed to the holder of the write lock.

\* Lines 67-73 of Save with the read lock granted: storageData refers to
\* p.secrets, the read lock is released again.
SaveSnapshot(g) ==
    /\ ppc[g] = "Save.locked"
    /\ pmu.writer = g
    /\ ppc' = [ppc EXCEPT ![g] = "Save.snapshot"]
    /\ UNCHANGED <<mvars, pmu, file, pcall, pret, list, hvars>>

\* What os.WriteFile may leave when it fails: the file as it was, or a
\* truncated one.
FailedWrites(f) == { f, FileGarbage }

\* Lines 75-84 of Save and its deferred Unlock: the data is marshalled and
\* written, and Save returns nil or the error of the write.
SaveWrite(g) ==
    /\ ppc[g] = "Save.snapshot"
    /\ \/ /\ file' = FileSnapshot(MarshalIndent(secrets))
          /\ pret' = [pret EXCEPT ![g] = [op |-> "Save", err |-> ErrNil]]
       \/ /\ file' \in FailedWrites(file)
          /\ pret' = [pret EXCEPT ![g] = [op |-> "Save", err |-> ErrWriteFile]]
    /\ pmu' = [pmu EXCEPT !.writer = NoGoroutine]
    /\ ppc' = [ppc EXCEPT ![g] = "Save.returned"]
    /\ UNCHANGED <<mvars, pcall, list, hvars>>

\* The operations that end in "return p.Save()".
ReturningSave == {"CreateSecret", "DeleteSecret", "DeleteSecretVersion", "Close"}

\* A caller of Save that reports success whatever Save returned.
ReturnSaveSwallowing(g) ==
    /\ ppc[g] = "Save.returned" /\ pcall[g].op \in ReturningSave
    /\ PersistentReturn(g, [err |-> ErrNil])
    /\ UNCHANGED <<mvars, pmu, file, list, hvars>>

\* "return p.Save()" of CreateSecret, DeleteSecret, DeleteSecretVersion and
\* Close: the operation returns what Save returned.
ReturnSave(g) ==
    /\ ppc[g] = "Save.returned" /\ pcall[g].op \in ReturningSave
    /\ PersistentReturn(g, [err |-> pret[g].err])
    /\ UNCHANGED <<mvars, pmu, file, list, hvars>>

\* Lines 110 and 121 of AddSecretVersion: after a successful Save the version
\* is returned, after a failed one the operation turns to line 111.
PersistentAddSecretVersionSaved(g) ==
    /\ ppc[g] = "Save.returned" /\ pcall[g].op = "AddSecretVersion"
    /\ IF pret[g].err = ErrNil
       THEN PersistentReturn(g, [err |-> ErrNil, versionID |-> ret[g].versionID,
                                version |-> ret[g].version])
       ELSE /\ ppc' = [ppc EXCEPT ![g] = "rollback"]
            /\ UNCHANGED <<pcall, pret>>
    /\ UNCHANGED <<mvars, pmu, file, list, hvars>>

\* p.mu.Lock() of line 111.
RollbackLock(g) ==
    /\ ppc[g] = "rollback"
    /\ CanLock(pmu)
    /\ pmu' = [pmu EXCEPT !.writer = g]
    /\ ppc' = [ppc EXCEPT ![g] = "rollback.locked"]
    /\ UNCHANGED <<mvars, file, pcall, pret, list, hvars>>

\* Lines 112-116 of AddSecretVersion on the map s, version being what the
\* in-memory AddSecretVersion returned.
RollbackOn(s, projectID, secretID, version) ==
    LET key == Key(projectID, secretID) IN
    IF MapHas(s, key)
    THEN [s EXCEPT ![key].Versions = MapDelete(@, GetVersionID(version.Name)),
                   ![key].VersionCount = @ - 1]
    ELSE s

\* Lines 112-118 of AddSecretVersion: the rollback, the Unlock and the
\* return of Save's error.
Rollback(g) ==
    /\ ppc[g] = "rollback.locked"
    /\ secrets' = RollbackOn(secrets, pcall[g].projectID, pcall[g].secretID,
                             ret[g].version)
    /\ pmu' = [pmu EXCEPT !.writer = NoGoroutine]
    /\ PersistentReturn(g, [err |-> pret[g].err])
    /\ UNCHANGED <<mu, pc, call, ret, issued, file, list, hvars>>

\* The goroutine whose operations are followed through Save.
SaveCaller == CHOOSE g \in Goroutines : TRUE

\* The store once main's Load has found no file and returned.
SaveReturnsInit ==
    /\ NewMemoryStorage
    /\ pmu = [writer |-> NoGoroutine, readers |-> {}]
    /\ ppc = [g \in Processes |-> IF g = MainGoroutine THEN "serving" ELSE "idle"]
    /\ pcall = [g \in Processes |-> NoCall]
    /\ pret = [g \in Processes |->
                 IF g = MainGoroutine THEN [op |-> "Load", err |-> ErrNil] ELSE NoRet]
    /\ file = FileAbsent
    /\ list = NoList
    /\ NoServing

\* One goroutine's mutating operations, each through its Save.
SaveReturnsNext ==
    \E g \in {SaveCaller} :
        \/ PersistentCreateSecretCall(g) \/ PersistentCreateSecret(g)
        \/ PersistentDeleteSecretCall(g) \/ PersistentDeleteSecret(g)
        \/ PersistentAddSecretVersionCall(g) \/ PersistentAddSecretVersionIncr(g)
        \/ PersistentAddSecretVersion(g)
        \/ PersistentDeleteSecretVersionCall(g) \/ PersistentDeleteSecretVersion(g)
        \/ SaveLock(g) \/ SaveSnapshot(g) \/ SaveWrite(g)
        \/ ReturnSave(g)
        \/ PersistentAddSecretVersionSaved(g) \/ RollbackLock(g) \/ Rollback(g)

SaveReturnsSpec == SaveReturnsInit /\ [][SaveReturnsNext]_vars

\* ------------------------- concurrent AddSecretVersion calls, with Save
\* The server's goroutines add versions to one stored secret; each call goes
\* through its Save (past its locks, as above) and, when the write fails,
\* through the rollback.

\* The number of AddSecretVersion calls made on the secret.
MaxAdds == 3

\* The secret the calls add to.
AddsTarget == CHOOSE t \in Targets : TRUE
AddsKey == Key(AddsTarget[1], AddsTarget[2])

\* The version ids that persistent AddSecretVersion calls have returned to
\* the goroutines, as far as the last call of each goroutine shows.
ReturnedVersionIDs ==
    { pret[h].versionID :
        h \in { x \in Goroutines :
                  pret[x].op = "AddSecretVersion" /\ pret[x].err = ErrNil } }

\* A call record that also notes the version ids that had been returned
\* when the call was invoked.
InvokedAfter(c, ids) ==
    [f \in (DOMAIN c) \cup {"after"} |-> IF f = "after" THEN ids ELSE c[f]]

\* A server goroutine calls PersistentStorage.AddSecretVersion, which first
\* calls MemoryStorage.AddSecretVersion (line 105).
ConcurrentAddSecretVersionCall(g) ==
    /\ \A key \in DOMAIN issued : Len(issued[key]) < MaxAdds
    /\ AddSecretVersionLock(g)
    /\ ppc[g] = "idle" /\ Serving
    /\ ppc' = [ppc EXCEPT ![g] = "inner"]
    /\ pcall' = [pcall EXCEPT ![g] = InvokedAfter(call'[g], ReturnedVersionIDs)]
    /\ pret' = [pret EXCEPT ![g] = NoRet]
    /\ UNCHANGED <<pmu, file, list, hvars>>

\* The store once a persistent CreateSecret of the secret has been saved.
ConcurrentAddsInit ==
    /\ secrets = [key \in {AddsKey} |->
                    NewSecret(AddsTarget[1], AddsTarget[2], NilLabels,
                              CHOOSE stamp \in Stamps : TRUE)]
    /\ mu = [writer |-> NoGoroutine, readers |-> {}]
    /\ pc = [g \in Goroutines |-> "idle"]
    /\ call = [g \in Goroutines |-> NoCall]
    /\ ret = [g \in Goroutines |-> NoRet]
    /\ issued = [key \in {AddsKey} |-> <<>>]
    /\ pmu = [writer |-> NoGoroutine, readers |-> {}]
    /\ ppc = [g \in Processes |-> IF g = MainGoroutine THEN "serving" ELSE "idle"]
    /\ pcall = [g \in Processes |-> NoCall]
    /\ pret = [g \in Processes |->
                 IF g = MainGoroutine THEN [op |-> "Load", err |-> ErrNil] ELSE NoRet]
    /\ file = FileSnapshot(MarshalIndent(secrets))
    /\ list = NoList
    /\ NoServing

ConcurrentAddsNext ==
    \E g \in Goroutines :
        \/ ConcurrentAddSecretVersionCall(g)
        \/ PersistentAddSecretVersionIncr(g)
        \/ PersistentAddSecretVersion(g)
        \/ SaveLock(g) \/ SaveSnapshot(g) \/ SaveWrite(g)
        \/ PersistentAddSecretVersionSaved(g) \/ RollbackLock(g) \/ Rollback(g)

ConcurrentAddsSpec == ConcurrentAddsInit /\ [][ConcurrentAddsNext]_vars

\* ----------------------------------------------------- paging a listing
\* The secrets and the version numbers of the stores that are listed.
ListSecretIDs == { <<"a">>, <<"b">>, <<"c">>, <<"d">>, <<"s">> }
ListVersionNumbers == { 1, 2, 9, 10 }
ListProject == <<"p">>
ListVersioned == <<"s">>

\* The largest of a set of version numbers, 0 for none.
MaxOf(nums) == IF nums = {} THEN 0 ELSE CHOOSE n \in nums : \A m \in nums : m <= n

\* The store after the secrets ids were created in ListProject and the
\* versions 1..MaxOf(nums) were added to secret ListVersioned, of which those
\* in nums were not deleted again.
StoreListed(ids, nums) ==
    [key \in { Key(ListProject, id) : id \in ids } |->
        LET id == CHOOSE i \in ids : Key(ListProject, i) = key
            stamp == CHOOSE st \in Stamps : TRUE
            fresh == NewSecret(ListProject, id, NilLabels, stamp)
        IN  IF id # ListVersioned THEN fresh
            ELSE [fresh EXCEPT
                    !.Versions = [v \in { Itoa(n) : n \in nums } |->
                                    NewSecretVersion(ListProject, id, v, <<>>, stamp)],
                    !.VersionCount = MaxOf(nums)]]

\* A store with some secrets and versions, no call in flight, no listing begun.
ListInit ==
    /\ \E ids \in SUBSET ListSecretIDs, nums \in SUBSET ListVersionNumbers :
         secrets = StoreListed(ids, nums)
    /\ mu = [writer |-> NoGoroutine, readers |-> {}]
    /\ pc = [g \in Goroutines |-> "idle"]
    /\ call = [g \in Goroutines |-> NoCall]
    /\ ret = [g \in Goroutines |-> NoRet]
    /\ issued = <<>>
    /\ NoPersistentCall
    /\ file = FileAbsent
    /\ list = NoList
    /\ NoServing

\* One caller pages through the secrets or the versions; nothing mutates.
ListNext ==
    \/ ListSecretsRLock(ListCaller) /\ UNCHANGED <<pvars, hvars>>
    \/ ListSecrets(ListCaller) /\ UNCHANGED <<pvars, hvars>>
    \/ ListSecretVersionsRLock(ListCaller) /\ UNCHANGED <<pvars, hvars>>
    \/ ListSecretVersions(ListCaller) /\ UNCHANGED <<pvars, hvars>>

ListSpec == ListInit /\ [][ListNext]_vars

\* ------------------------------------------------- the read-only operations
\* The persistent variant while it serves: the five read-only operations,
\* which PersistentStorage takes over from the MemoryStorage it embeds, on a
\* store that earlier calls have filled.
ReadSecretIDs == { <<"a">>, <<"s">> }
ReadVersionNumbers == { 1, 2 }

\* What main's Load has left: no file, or one that did not parse (the error
\* is logged and the server goes on).
ReadFiles == { FileAbsent, FileGarbage }

ReadInit ==
    /\ \E ids \in SUBSET ReadSecretIDs, nums \in SUBSET ReadVersionNumbers :
         secrets = StoreListed(ids, nums)
    /\ mu = [writer |-> NoGoroutine, readers |-> {}]
    /\ pc = [g \in Goroutines |-> "idle"]
    /\ call = [g \in Goroutines |-> NoCall]
    /\ ret = [g \in Goroutines |-> NoRet]
    /\ issued = <<>>
    /\ pmu = [writer |-> NoGoroutine, readers |-> {}]
    /\ ppc = [g \in Processes |-> IF g = MainGoroutine THEN "serving" ELSE "idle"]
    /\ pcall = [g \in Processes |-> NoCall]
    /\ file \in ReadFiles
    /\ pret = [g \in Processes |->
                 IF g = MainGoroutine THEN [op |-> "Load", err |-> LoadOn(file).err]
                 ELSE NoRet]
    /\ list = NoList
    /\ NoServing

\* A listing operation is entered the same way; the caller's bookkeeping is
\* kept by the operation's own actions.
PromotedList(g) == ppc[g] = "idle" /\ Serving /\ UNCHANGED <<pvars, hvars>>

ReadNext ==
    \/ \E g \in Goroutines :
        \/ GetSecretRLock(g) /\ Promoted(g)
        \/ GetSecret(g) /\ UNCHANGED <<pvars, list, hvars>>
        \/ GetSecretVersionRLock(g) /\ Promoted(g)
        \/ GetSecretVersion(g) /\ UNCHANGED <<pvars, list, hvars>>
        \/ AccessSecretVersionRLock(g) /\ Promoted(g)
        \/ AccessSecretVersion(g) /\ UNCHANGED <<pvars, list, hvars>>
    \/ ListSecretsRLock(ListCaller) /\ PromotedList(ListCaller)
    \/ ListSecrets(ListCaller) /\ UNCHANGED <<pvars, hvars>>
    \/ ListSecretVersionsRLock(ListCaller) /\ PromotedList(ListCaller)
    \/ ListSecretVersions(ListCaller) /\ UNCHANGED <<pvars, hvars>>

ReadSpec == ReadInit /\ [][ReadNext]_vars

\* --------------------------------------------------------- the HTTP layer
\* The handler SetupRoutes registers for "/v1/projects/" and the handlers it
\* dispatches to, in front of a MemoryStorage (GSM_STORAGE_FILE not set),
\* with GSM_ENABLE_AUTH not "true" (NoAuth passes every request on) and
\* GSM_ENABLE_CORS "false"; the Logging middleware changes no response.
\* Paths are the clean paths http.ServeMux hands on.

StrAddVersion == <<":", "a", "d", "d", "V", "e", "r", "s", "i", "o", "n">>
StrAccess == <<":", "a", "c", "c", "e", "s", "s">>
WordProjects == <<"p", "r", "o", "j", "e", "c", "t", "s">>
WordSecrets == <<"s", "e", "c", "r", "e", "t", "s">>
WordVersions == <<"v", "e", "r", "s", "i", "o", "n", "s">>

\* strings.HasSuffix, strings.TrimSuffix
HasSuffix(s, suffix) ==
    Len(s) >= Len(suffix) /\ SubSeq(s, Len(s) - Len(suffix) + 1, Len(s)) = suffix
TrimSuffix(s, suffix) ==
    IF HasSuffix(s, suffix) THEN SubSeq(s, 1, Len(s) - Len(suffix)) ELSE s

\* strings.Trim(path, "/"): the leading and the trailing slashes are cut.
RECURSIVE TrimSlashes(_)
TrimSlashes(s) ==
    IF Len(s) = 0 THEN s
    ELSE IF s[1] = "/" THEN TrimSlashes(Tail(s))
    ELSE IF s[Len(s)] = "/" THEN TrimSlashes(SubSeq(s, 1, Len(s) - 1))
    ELSE s

\* strings.Split(s, "/"): the texts between the slashes, empty ones
\* included; parts and current are what has been split off so far, both
\* empty at the call.
RECURSIVE Split(_, _, _)
Split(s, parts, current) ==
    IF Len(s) = 0 THEN Append(parts, current)
    ELSE IF s[1] = "/" THEN Split(Tail(s), Append(parts, current), <<>>)
    ELSE Split(Tail(s), parts, Append(current, s[1]))

\* The loop with its return: the part after the first part that is
\* "projects" and has a part after it; "" without one.
extractProjectID(path) ==
    LET parts == Split(TrimSlashes(path), <<>>, <<>>)
        at == { i \in 1..(Len(parts) - 1) : parts[i] = WordProjects }
    IN  IF at = {} THEN <<>>
        ELSE parts[(CHOOSE i \in at : \A j \in at : i <= j) + 1]

\* The loops that assign: the part after the last part that equals word and
\* has a part after it; "" without one.
AfterLast(parts, word) ==
    LET at == { i \in 1..(Len(parts) - 1) : parts[i] = word } IN
    IF at = {} THEN <<>>
    ELSE parts[(CHOOSE i \in at : \A j \in at : j <= i) + 1]

extractProjectAndSecretID(path) ==
    LET parts == Split(TrimSlashes(path), <<>>, <<>>) IN
    [projectID |-> AfterLast(parts, WordProjects),
     secretID |-> AfterLast(parts, WordSecrets)]

extractProjectSecretAndVersionID(path) ==
    LET parts == Split(TrimSlashes(path), <<>>, <<>>) IN
    [projectID |-> AfterLast(parts, WordProjects),
     secretID |-> AfterLast(parts, WordSecrets),
     versionID |-> AfterLast(parts, WordVersions)]

extractProjectAndSecretFromAddVersionPath(path) ==
    extractProjectAndSecretID(TrimSuffix(path, StrAddVersion))

extractProjectSecretAndVersionFromAccessPath(path) ==
    extractProjectSecretAndVersionID(TrimSuffix(path, StrAccess))

\* routes.splitPath: the non-empty texts between the slashes; parts and
\* current are the variables of its loop, both empty at the call.
RECURSIVE splitPath(_, _, _)
splitPath(path, parts, current) ==
    IF Len(path) = 0
    THEN IF current # <<>> THEN Append(parts, current) ELSE parts
    ELSE IF path[1] = "/"
    THEN splitPath(Tail(path),
                   IF current # <<>> THEN Append(parts, current) ELSE parts,
                   <<>>)
    ELSE splitPath(Tail(path), parts, Append(current, path[1]))

\* routes.pathMatches, the pattern given as its parts.
pathMatches(path, patternParts) ==
    LET pathParts == splitPath(path, <<>>, <<>>) IN
    /\ Len(pathParts) = Len(patternParts)
    /\ \A i \in 1..Len(patternParts) :
         patternParts[i] = <<"*">> \/ pathParts[i] = patternParts[i]

\* The patterns of SetupRoutes, split.
PatternSecrets == << <<"v", "1">>, WordProjects, <<"*">>, WordSecrets >>
PatternSecret == Append(PatternSecrets, <<"*">>)
PatternVersions == Append(PatternSecret, WordVersions)
PatternVersion == Append(PatternVersions, <<"*">>)

\* routes.contains
contains(s, substr) ==
    \E i \in 0..(Len(s) - Len(substr)) : SubSeq(s, i + 1, i + Len(substr)) = substr
containsVersions(path) == contains(path, <<"/">> \o WordVersions)
containsAccess(path) == contains(path, StrAccess)

\* The switch of the "/v1/projects/" handler: the handler a request goes
\* to, in the order of the cases.
Route(r) ==
    IF r.method = "POST" /\ pathMatches(r.path, PatternSecrets)
    THEN "CreateSecret"
    ELSE IF r.method = "GET" /\ pathMatches(r.path, PatternSecrets)
    THEN "ListSecrets"
    ELSE IF r.method = "GET" /\ pathMatches(r.path, PatternSecret)
            /\ ~containsVersions(r.path)
    THEN "GetSecret"
    ELSE IF r.method = "DELETE" /\ pathMatches(r.path, PatternSecret)
            /\ ~containsVersions(r.path)
    THEN "DeleteSecret"
    ELSE IF r.method = "POST" /\ HasSuffix(r.path, StrAddVersion)
            /\ pathMatches(TrimSuffix(r.path, StrAddVersion), PatternSecret)
    THEN "AddSecretVersion"
    ELSE IF r.method = "GET" /\ HasSuffix(r.path, StrAccess)
            /\ pathMatches(TrimSuffix(r.path, StrAccess), PatternVersion)
    THEN "AccessSecretVersion"
    ELSE IF r.method = "GET" /\ pathMatches(r.path, PatternVersions)
    THEN "ListSecretVersions"
    ELSE IF r.method = "DELETE" /\ pathMatches(r.path, PatternVersion)
            /\ ~containsAccess(r.path)
    THEN "DeleteSecretVersion"
    ELSE "NotFound"

\* A pointer field of a decoded request that the body did not give.
NilPointer == [nil |-> TRUE]

\* The paths of the API.
SecretsPath(p) == <<"/", "v", "1", "/">> \o StrProjects \o p \o <<"/">> \o WordSecrets
SecretPath(p, s) == SecretsPath(p) \o <<"/">> \o s
VersionsPath(p, s) == SecretPath(p, s) \o <<"/">> \o WordVersions
VersionPath(p, s, v) == VersionsPath(p, s) \o <<"/">> \o v

\* The requests the clients send, for project "p", secret "s" and the
\* versions "1" and "latest".  A request is the method, r.URL.Path, the
\* query values and the body as json.NewDecoder(r.Body).Decode leaves it
\* (whether it parsed, and the fields of CreateSecretRequest and
\* AddSecretVersionRequest it filled: a field the body does not name keeps
\* its zero value); with it, what the handler that serves it keeps in a
\* local variable across its store call (CreateSecret its secret,
\* AccessSecretVersion its data).
Requests ==
    LET Body(valid, secretId, secret, payload) ==
            [valid |-> valid, secretId |-> secretId, secret |-> secret,
             payload |-> payload]
        \* no body, or one that is not JSON
        BodyUnparseable == Body(FALSE, <<>>, NilPointer, NilPointer)
        \* {}
        BodyEmptyObject == Body(TRUE, <<>>, NilPointer, NilPointer)
        \* {"secretId": "s", "secret": {}}
        BodyCreate == Body(TRUE, <<"s">>, [labels |-> NilLabels], NilPointer)
        \* {"secretId": "s"}
        BodyCreateWithoutSecret == Body(TRUE, <<"s">>, NilPointer, NilPointer)
        \* {"payload": {"data": data}}
        BodyPayload(data) == Body(TRUE, <<>>, NilPointer, [data |-> data])
        NoQuery == [pageSize |-> <<>>, pageToken |-> <<>>]
        Request(method, path, body, query) ==
            [method |-> method, path |-> path, body |-> body, query |-> query,
             local |-> <<>>]
        p == <<"p">>
        s == <<"s">>
        versions == { <<"1">>, StrLatest }
    IN
    { Request("POST", SecretsPath(p), b, NoQuery) :
        b \in { BodyCreate, BodyCreateWithoutSecret, BodyEmptyObject,
                BodyUnparseable } }
    \cup
    { Request("POST", SecretPath(p, s) \o StrAddVersion, b, NoQuery) :
        b \in { BodyPayload(<<97, 98, 99>>), BodyPayload(<<>>),
                BodyEmptyObject, BodyUnparseable } }
    \cup
    { Request("GET", VersionPath(p, s, v) \o StrAccess, BodyUnparseable, NoQuery) :
        v \in versions }
    \cup
    { Request("DELETE", VersionPath(p, s, v), BodyUnparseable, NoQuery) :
        v \in versions }
    \cup
    { Request(m, SecretPath(p, s), BodyUnparseable, NoQuery) :
        m \in {"GET", "DELETE", "PUT"} }
    \cup
    { Request("GET", SecretsPath(p), BodyUnparseable,
              [pageSize |-> ps, pageToken |-> <<>>]) : ps \in { <<>>, <<"1">> } }
    \cup
    { Request("GET", path, BodyUnparseable, NoQuery) :
        path \in { VersionsPath(p, s),
                   VersionPath(p, s, <<"1">>),
                   <<"/", "v", "1", "/">> \o StrProjects \o p
                       \o <<"/", "n", "o", "n", "e", "x", "i", "s", "t", "e", "n", "t">> } }

\* writeErrorResponse: the status code and the body {"error": {...}}.
writeErrorResponse(handler, statusCode, status) ==
    [status |-> statusCode, handler |-> handler,
     body |-> [error |-> [code |-> statusCode, status |-> status]]]

\* A response of statusCode whose body is the JSON of entity.
writeJSON(handler, statusCode, entity) ==
    [status |-> statusCode, handler |-> handler, body |-> entity]

\* A response of statusCode to which no body is written.
NoBody == [empty |-> TRUE]
writeHeader(handler, statusCode) ==
    [status |-> statusCode, handler |-> handler, body |-> NoBody]

\* The handler panicked: net/http recovers and closes the connection, the
\* client gets no response.
Aborted(handler) == [status |-> 0, handler |-> handler, body |-> NoBody]

\* What a handler does before it turns to the store: it answers, it
\* panics, or it calls the store (taking the write or the read lock).
Answer(response) == [kind |-> "answer", response |-> response]
Panic == [kind |-> "panic"]
StoreCall(lock, c) == [kind |-> "call", lock |-> lock, c |-> c]

\* The page size of a handler that sets no upper limit.
HandlerPageSizeUnlimited(query) ==
    LET ps == Atoi(query.pageSize) IN
    IF query.pageSize # <<>> /\ ps.ok /\ ps.n > 0
    THEN ps.n
    ELSE 100

\* The page size a list handler passes on (lines 201-206 and 360-365).
HandlerPageSize(query) ==
    LET ps == Atoi(query.pageSize) IN
    IF query.pageSize # <<>> /\ ps.ok /\ ps.n > 0 /\ ps.n <= 1000
    THEN ps.n
    ELSE 100

\* SecretsHandler.CreateSecret, lines 292-314.
CreateSecretHandler(r, stamp) ==
    LET projectID == extractProjectID(r.path) IN
    IF projectID = <<>>
    THEN Answer(writeErrorResponse("CreateSecret", 400, "INVALID_ARGUMENT"))
    ELSE IF ~r.body.valid
    THEN Answer(writeErrorResponse("CreateSecret", 400, "INVALID_ARGUMENT"))
    ELSE IF r.body.secretId = <<>>
    THEN Answer(writeErrorResponse("CreateSecret", 400, "INVALID_ARGUMENT"))
    ELSE IF r.body.secret = NilPointer
    THEN Panic
    ELSE StoreCall("Lock",
             [op |-> "CreateSecret", projectID |-> projectID,
              secretID |-> r.body.secretId,
              secret |-> NewSecret(projectID, r.body.secretId,
                                   r.body.secret.labels, stamp)])

\* SecretsHandler.GetSecret, lines 331-337.
GetSecretHandler(r) ==
    LET ids == extractProjectAndSecretID(r.path) IN
    IF ids.projectID = <<>> \/ ids.secretID = <<>>
    THEN Answer(writeErrorResponse("GetSecret", 400, "INVALID_ARGUMENT"))
    ELSE StoreCall("RLock", [op |-> "GetSecret", projectID |-> ids.projectID,
                             secretID |-> ids.secretID])

\* SecretsHandler.ListSecrets, lines 354-369.
ListSecretsHandler(r) ==
    LET projectID == extractProjectID(r.path) IN
    IF projectID = <<>>
    THEN Answer(writeErrorResponse("ListSecrets", 400, "INVALID_ARGUMENT"))
    ELSE StoreCall("RLock", [op |-> "ListSecrets", projectID |-> projectID,
                             pageSize |-> HandlerPageSize(r.query),
                             pageToken |-> r.query.pageToken])

\* SecretsHandler.DeleteSecret, lines 387-393.
DeleteSecretHandler(r) ==
    LET ids == extractProjectAndSecretID(r.path) IN
    IF ids.projectID = <<>> \/ ids.secretID = <<>>
    THEN Answer(writeErrorResponse("DeleteSecret", 400, "INVALID_ARGUMENT"))
    ELSE StoreCall("Lock", [op |-> "DeleteSecret", projectID |-> ids.projectID,
                            secretID |-> ids.secretID])

\* VersionsHandler.AddSecretVersion, lines 118-135.
AddSecretVersionHandler(r) ==
    LET ids == extractProjectAndSecretFromAddVersionPath(r.path) IN
    IF ids.projectID = <<>> \/ ids.secretID = <<>>
    THEN Answer(writeErrorResponse("AddSecretVersion", 400, "INVALID_ARGUMENT"))
    ELSE IF ~r.body.valid
    THEN Answer(writeErrorResponse("AddSecretVersion", 400, "INVALID_ARGUMENT"))
    ELSE IF r.body.payload = NilPointer \/ Len(r.body.payload.data) = 0
    THEN Answer(writeErrorResponse("AddSecretVersion", 400, "INVALID_ARGUMENT"))
    ELSE StoreCall("Lock", [op |-> "AddSecretVersion", projectID |-> ids.projectID,
                            secretID |-> ids.secretID,
                            data |-> r.body.payload.data])

\* VersionsHandler.AccessSecretVersion, lines 153-159.
AccessSecretVersionHandler(r) ==
    LET ids == extractProjectSecretAndVersionFromAccessPath(r.path) IN
    IF ids.projectID = <<>> \/ ids.secretID = <<>> \/ ids.versionID = <<>>
    THEN Answer(writeErrorResponse("AccessSecretVersion", 400, "INVALID_ARGUMENT"))
    ELSE StoreCall("RLock", [op |-> "AccessSecretVersion",
                             projectID |-> ids.projectID,
                             secretID |-> ids.secretID,
                             versionID |-> ids.versionID])

\* VersionsHandler.ListSecretVersions, lines 195-210.
ListSecretVersionsHandler(r) ==
    LET ids == extractProjectAndSecretID(r.path) IN
    IF ids.projectID = <<>> \/ ids.secretID = <<>>
    THEN Answer(writeErrorResponse("ListSecretVersions", 400, "INVALID_ARGUMENT"))
    ELSE StoreCall("RLock", [op |-> "ListSecretVersions",
                             projectID |-> ids.projectID,
                             secretID |-> ids.secretID,
                             pageSize |-> HandlerPageSize(r.query),
                             pageToken |-> r.query.pageToken])

\* VersionsHandler.DeleteSecretVersion, lines 233-239.
DeleteSecretVersionHandler(r) ==
    LET ids == extractProjectSecretAndVersionID(r.path) IN
    IF ids.projectID = <<>> \/ ids.secretID = <<>> \/ ids.versionID = <<>>
    THEN Answer(writeErrorResponse("DeleteSecretVersion", 400, "INVALID_ARGUMENT"))
    ELSE StoreCall("Lock", [op |-> "DeleteSecretVersion",
                            projectID |-> ids.projectID,
                            secretID |-> ids.secretID,
                            versionID |-> ids.versionID])

\* The handler the switch picks, run up to its store call.
Dispatch(r, stamp) ==
    LET handler == Route(r) IN
    IF handler = "CreateSecret" THEN CreateSecretHandler(r, stamp)
    ELSE IF handler = "ListSecrets" THEN ListSecretsHandler(r)
    ELSE IF handler = "GetSecret" THEN GetSecretHandler(r)
    ELSE IF handler = "DeleteSecret" THEN DeleteSecretHandler(r)
    ELSE IF handler = "AddSecretVersion" THEN AddSecretVersionHandler(r)
    ELSE IF handler = "AccessSecretVersion" THEN AccessSecretVersionHandler(r)
    ELSE IF handler = "ListSecretVersions" THEN ListSecretVersionsHandler(r)
    ELSE IF handler = "DeleteSecretVersion" THEN DeleteSecretVersionHandler(r)
    ELSE Answer(writeErrorResponse("NotFound", 404, "NOT_FOUND"))

\* The JSON of a SecretVersion (Data is tagged json:"-").
VersionJSON(version) ==
    [ Name       |-> version.Name,
      CreateTime |-> version.CreateTime,
      State      |-> version.State,
      Etag       |-> version.Etag,
      Checksum   |-> version.Checksum ]

\* SecretsHandler.CreateSecret, lines 314-326, the store having returned rt.
CreateSecretResponse(rt, secret) ==
    IF rt.err = ErrSecretExists
    THEN writeErrorResponse("CreateSecret", 409, "ALREADY_EXISTS")
    ELSE IF rt.err # ErrNil
    THEN writeErrorResponse("CreateSecret", 500, "INTERNAL")
    ELSE writeJSON("CreateSecret", 201, Metadata(secret))

\* SecretsHandler.GetSecret, lines 337-349.
GetSecretResponse(rt) ==
    IF rt.err = ErrSecretNotFound
    THEN writeErrorResponse("GetSecret", 404, "NOT_FOUND")
    ELSE IF rt.err # ErrNil
    THEN writeErrorResponse("GetSecret", 500, "INTERNAL")
    ELSE writeJSON("GetSecret", 200, rt.secret)

\* SecretsHandler.ListSecrets, lines 369-382.
ListSecretsResponse(rt) ==
    IF rt.err # ErrNil
    THEN writeErrorResponse("ListSecrets", 500, "INTERNAL")
    ELSE writeJSON("ListSecrets", 200,
             [secrets |-> [i \in 1..Len(rt.items) |-> Metadata(rt.items[i])],
              nextPageToken |-> rt.nextPageToken,
              totalSize |-> Len(rt.items)])

\* SecretsHandler.DeleteSecret that answers 200 with a body.
DeleteSecretResponseOK(rt) ==
    IF rt.err = ErrSecretNotFound
    THEN writeErrorResponse("DeleteSecret", 404, "NOT_FOUND")
    ELSE IF rt.err # ErrNil
    THEN writeErrorResponse("DeleteSecret", 500, "INTERNAL")
    ELSE writeJSON("DeleteSecret", 200, [deleted |-> TRUE])

\* SecretsHandler.DeleteSecret, lines 393-403.
DeleteSecretResponse(rt) ==
    IF rt.err = ErrSecretNotFound
    THEN writeErrorResponse("DeleteSecret", 404, "NOT_FOUND")
    ELSE IF rt.err # ErrNil
    THEN writeErrorResponse("DeleteSecret", 500, "INTERNAL")
    ELSE writeHeader("DeleteSecret", 204)

\* VersionsHandler.AddSecretVersion, lines 135-148.
AddSecretVersionResponse(rt) ==
    IF rt.err = ErrSecretNotFound
    THEN writeErrorResponse("AddSecretVersion", 404, "NOT_FOUND")
    ELSE IF rt.err # ErrNil
    THEN writeErrorResponse("AddSecretVersion", 500, "INTERNAL")
    ELSE writeJSON("AddSecretVersion", 201, VersionJSON(rt.version))

\* VersionsHandler.AccessSecretVersion, lines 160-173: the answer to an
\* error of the store's AccessSecretVersion.
AccessSecretVersionResponse(rt) ==
    IF rt.err = ErrSecretNotFound
    THEN writeErrorResponse("AccessSecretVersion", 404, "NOT_FOUND")
    ELSE IF rt.err = ErrVersionNotFound
    THEN writeErrorResponse("AccessSecretVersion", 404, "NOT_FOUND")
    ELSE writeErrorResponse("AccessSecretVersion", 500, "INTERNAL")

\* VersionsHandler.AccessSecretVersion, lines 176-190: the answer once the
\* store's GetSecretVersion has returned rt, data being what
\* AccessSecretVersion returned.
AccessSecretVersionMetadataResponse(rt, data) ==
    IF rt.err # ErrNil
    THEN writeErrorResponse("AccessSecretVersion", 500, "INTERNAL")
    ELSE writeJSON("AccessSecretVersion", 200,
             [name |-> rt.version.Name,
              payload |-> [data |-> data, checksum |-> rt.version.Checksum]])

\* VersionsHandler.ListSecretVersions, lines 210-228.
ListSecretVersionsResponse(rt) ==
    IF rt.err = ErrSecretNotFound
    THEN writeErrorResponse("ListSecretVersions", 404, "NOT_FOUND")
    ELSE IF rt.err # ErrNil
    THEN writeErrorResponse("ListSecretVersions", 500, "INTERNAL")
    ELSE writeJSON("ListSecretVersions", 200,
             [versions |-> [i \in 1..Len(rt.items) |-> VersionJSON(rt.items[i])],
              nextPageToken |-> rt.nextPageToken,
              totalSize |-> Len(rt.items)])

\* VersionsHandler.DeleteSecretVersion, lines 239-254.
DeleteSecretVersionResponse(rt) ==
    IF rt.err = ErrSecretNotFound
    THEN writeErrorResponse("DeleteSecretVersion", 404, "NOT_FOUND")
    ELSE IF rt.err = ErrVersionNotFound
    THEN writeErrorResponse("DeleteSecretVersion", 404, "NOT_FOUND")
    ELSE IF rt.err # ErrNil
    THEN writeErrorResponse("DeleteSecretVersion", 500, "INTERNAL")
    ELSE writeHeader("DeleteSecretVersion", 204)

\* The answer of the handler of operation op to what its store call
\* returned, local being what it kept across the call.
Response(op, rt, local) ==
    IF op = "CreateSecret" THEN CreateSecretResponse(rt, local)
    ELSE IF op = "GetSecret" THEN GetSecretResponse(rt)
    ELSE IF op = "ListSecrets" THEN ListSecretsResponse(rt)
    ELSE IF op = "DeleteSecret" THEN DeleteSecretResponse(rt)
    ELSE IF op = "AddSecretVersion" THEN AddSecretVersionResponse(rt)
    ELSE IF op = "AccessSecretVersion" THEN AccessSecretVersionResponse(rt)
    ELSE IF op = "ListSecretVersions" THEN ListSecretVersionsResponse(rt)
    ELSE DeleteSecretVersionResponse(rt)

\* The handler returns: the response is the client's, the goroutine is free
\* and what the store returned to the handler is gone with it.
Respond(g, response) ==
    /\ hpc' = [hpc EXCEPT ![g] = "idle"]
    /\ req' = [req EXCEPT ![g] = NoRequest]
    /\ resp' = [resp EXCEPT ![g] = response]
    /\ ret' = [ret EXCEPT ![g] = NoRet]
    /\ UNCHANGED <<secrets, mu, pc, call, issued>>

\* A goroutine of the server is handed a request.
Receive(g) ==
    /\ hpc[g] = "idle"
    /\ \E r \in Requests : req' = [req EXCEPT ![g] = r]
    /\ hpc' = [hpc EXCEPT ![g] = "routed"]
    /\ resp' = [resp EXCEPT ![g] = NoResponse]
    /\ UNCHANGED <<mvars, pvars, list>>

\* The switch and a handler that answers without calling the store, or
\* panics before it does.
ServeWithoutStore(g) ==
    /\ hpc[g] = "routed"
    /\ \E stamp \in Stamps :
         LET d == Dispatch(req[g], stamp) IN
         /\ d.kind # "call"
         /\ Respond(g, IF d.kind = "panic" THEN Aborted(Route(req[g]))
                       ELSE d.response)
    /\ UNCHANGED <<pvars, list>>

\* The switch and a handler up to the lock its store call takes.
ServeToStore(g) ==
    /\ hpc[g] = "routed"
    /\ \E stamp \in Stamps :
         LET d == Dispatch(req[g], stamp) IN
         /\ d.kind = "call"
         /\ d.c.op = "AddSecretVersion" /\ MapHas(secrets, Key(d.c.projectID, d.c.secretID))
               => secrets[Key(d.c.projectID, d.c.secretID)].VersionCount < MaxVersionCount
         /\ IF d.lock = "Lock" THEN Lock(g, d.c) ELSE RLock(g, d.c)
         /\ req' = [req EXCEPT ![g].local =
                       IF d.c.op = "CreateSecret" THEN d.c.secret ELSE <<>>]
    /\ hpc' = [hpc EXCEPT ![g] = "store"]
    /\ UNCHANGED <<resp, pvars, list>>

\* ListSecrets and ListSecretVersions of the store, called by a handler.
ServeList(g) ==
    /\ hpc[g] = "store" /\ pc[g] = "rlocked"
    /\ call[g].op \in {"ListSecrets", "ListSecretVersions"}
    /\ LET r == IF call[g].op = "ListSecrets"
                THEN ListSecretsOn(secrets, call[g].projectID, call[g].pageSize,
                                   call[g].pageToken)
                ELSE ListSecretVersionsOn(secrets, call[g].projectID,
                         call[g].secretID, call[g].pageSize, call[g].pageToken)
       IN  IF r.err # ErrNil
           THEN UnlockAndReturn(g, r)
           ELSE \E page \in r.pages :
                    UnlockAndReturn(g, [err |-> ErrNil, items |-> page.items,
                                        nextPageToken |-> page.nextPageToken])
    /\ UNCHANGED <<secrets, issued, pvars, list, hvars>>

\* The store call has returned and the handler answers.
ServeResponse(g) ==
    /\ hpc[g] = "store" /\ pc[g] = "idle"
    /\ ~(ret[g].op = "AccessSecretVersion" /\ ret[g].err = ErrNil)
    /\ Respond(g, Response(ret[g].op, ret[g], req[g].local))
    /\ UNCHANGED <<pvars, list>>

\* Line 175: AccessSecretVersion has returned the data and the handler
\* calls GetSecretVersion with the ids it called AccessSecretVersion with.
ServeAccessMetadata(g) ==
    /\ hpc[g] = "store" /\ pc[g] = "idle"
    /\ ret[g].op = "AccessSecretVersion" /\ ret[g].err = ErrNil
    /\ LET ids == extractProjectSecretAndVersionFromAccessPath(req[g].path) IN
         RLock(g, [op |-> "GetSecretVersion", projectID |-> ids.projectID,
                   secretID |-> ids.secretID, versionID |-> ids.versionID])
    /\ req' = [req EXCEPT ![g].local = ret[g].data]
    /\ hpc' = [hpc EXCEPT ![g] = "metadata"]
    /\ UNCHANGED <<resp, pvars, list>>

\* Lines 176-190: GetSecretVersion has returned and the handler answers.
ServeAccessResponse(g) ==
    /\ hpc[g] = "metadata" /\ pc[g] = "idle"
    /\ Respond(g, AccessSecretVersionMetadataResponse(ret[g], req[g].local))
    /\ UNCHANGED <<pvars, list>>

ServerNext ==
    \E g \in Goroutines :
        \/ Receive(g)
        \/ ServeWithoutStore(g)
        \/ ServeToStore(g)
        \/ CreateSecret(g) /\ UNCHANGED <<pvars, list, hvars>>
        \/ GetSecret(g) /\ UNCHANGED <<pvars, list, hvars>>
        \/ ServeList(g)
        \/ DeleteSecret(g) /\ UNCHANGED <<pvars, list, hvars>>
        \/ AddSecretVersionIncr(g) /\ UNCHANGED <<pvars, list, hvars>>
        \/ AddSecretVersion(g) /\ UNCHANGED <<pvars, list, hvars>>
        \/ AccessSecretVersion(g) /\ UNCHANGED <<pvars, list, hvars>>
        \/ ServeResponse(g)
        \/ ServeAccessMetadata(g)
        \/ GetSecretVersion(g) /\ UNCHANGED <<pvars, list, hvars>>
        \/ ServeAccessResponse(g)
        \/ DeleteSecretVersion(g) /\ UNCHANGED <<pvars, list, hvars>>

\* The server in front of a new MemoryStorage.
ServerSpec == Init /\ [][ServerNext]_vars

\* ------------------------------------------- resources under several pairs
\* The (projectID, secretID) pairs of this specification.  The store takes
\* any strings: ("a/b", "c") and ("a", "b/c") are two pairs, ("a", "d") is a
\* third in the project of the second.
Pairs ==
    { << <<"a", "/", "b">>, <<"c">> >>,
      << <<"a">>, <<"b", "/", "c">> >>,
      << <<"a">>, <<"d">> >> }

\* The goroutine that calls the store.
PairCaller == CHOOSE g \in Goroutines : TRUE

\* The caller enters one of the store's operations with one of the pairs:
\* lines 197, 211, 225, 270, 284 and 386, the first statement of each.  The
\* caller keeps the listing it was given until its next call.
PairCall(g) ==
    \E t \in Pairs :
        \/ /\ Lock(g, [op |-> "CreateSecret", projectID |-> t[1], secretID |-> t[2],
                       secret |-> NewSecret(t[1], t[2], NilLabels,
                                            CHOOSE stamp \in Stamps : TRUE)])
           /\ list' = NoList
        \/ /\ RLock(g, [op |-> "GetSecret", projectID |-> t[1], secretID |-> t[2]])
           /\ list' = NoList
        \/ /\ Lock(g, [op |-> "DeleteSecret", projectID |-> t[1], secretID |-> t[2]])
           /\ list' = NoList
        \/ /\ MapHas(secrets, Key(t[1], t[2]))
                 => secrets[Key(t[1], t[2])].VersionCount < MaxVersionCount
           /\ Lock(g, [op |-> "AddSecretVersion", projectID |-> t[1],
                       secretID |-> t[2], data |-> <<>>])
           /\ list' = NoList
        \/ \E v \in { <<"1">>, <<"2">> } :
             /\ Lock(g, [op |-> "DeleteSecretVersion", projectID |-> t[1],
                         secretID |-> t[2], versionID |-> v])
             /\ list' = NoList
        \/ \E pageSize \in {0, 1}, pageToken \in { <<>>, <<"1">> } :
             /\ RLock(g, [op |-> "ListSecrets", projectID |-> t[1],
                          pageSize |-> pageSize, pageToken |-> pageToken])
             /\ list' = NewList("ListSecrets", pageSize)

PairsNext ==
    \/ PairCall(PairCaller) /\ UNCHANGED <<pvars, hvars>>
    \/ CreateSecret(PairCaller) /\ UNCHANGED <<pvars, list, hvars>>
    \/ GetSecret(PairCaller) /\ UNCHANGED <<pvars, list, hvars>>
    \/ DeleteSecret(PairCaller) /\ UNCHANGED <<pvars, list, hvars>>
    \/ AddSecretVersionIncr(PairCaller) /\ UNCHANGED <<pvars, list, hvars>>
    \/ AddSecretVersion(PairCaller) /\ UNCHANGED <<pvars, list, hvars>>
    \/ DeleteSecretVersion(PairCaller) /\ UNCHANGED <<pvars, list, hvars>>
    \/ ListSecrets(PairCaller) /\ UNCHANGED <<pvars, hvars>>

\* The callers of MemoryStorage are free in the strings they pass.
PairsSpec == Init /\ [][PairsNext]_vars

\* ------------------------------------------------- listing from any token
\* The page tokens a caller passes: none, offsets within and beyond the
\* lists, and a token that is no number.
PageTokens == { <<>>, <<"0">>, <<"1">>, <<"5">>, <<"x">> }

\* The caller enters ListSecrets (line 225) or ListSecretVersions (line 330)
\* with a page size and a token of its choice.
ListWithToken(g) ==
    \E pageSize \in PageSizes, pageToken \in PageTokens :
        \/ /\ RLock(g, [op |-> "ListSecrets", projectID |-> ListProject,
                        pageSize |-> pageSize, pageToken |-> pageToken])
           /\ list' = NewList("ListSecrets", pageSize)
        \/ /\ RLock(g, [op |-> "ListSecretVersions", projectID |-> ListProject,
                        secretID |-> ListVersioned, pageSize |-> pageSize,
                        pageToken |-> pageToken])
           /\ list' = NewList("ListSecretVersions", pageSize)

TokenNext ==
    \/ ListWithToken(ListCaller) /\ UNCHANGED <<pvars, hvars>>
    \/ ListSecrets(ListCaller) /\ UNCHANGED <<pvars, hvars>>
    \/ ListSecretVersions(ListCaller) /\ UNCHANGED <<pvars, hvars>>

\* One caller lists a store that nothing changes, with tokens of its choice.
TokenSpec == ListInit /\ [][TokenNext]_vars

\* ------------------------------------------------ the page size of a list
\* A goroutine of the server is handed one of the requests.
ReceiveFrom(g, requests) ==
    /\ hpc[g] = "idle"
    /\ \E r \in requests : req' = [req EXCEPT ![g] = r]
    /\ hpc' = [hpc EXCEPT ![g] = "routed"]
    /\ resp' = [resp EXCEPT ![g] = NoResponse]
    /\ UNCHANGED <<mvars, pvars, list>>

\* The pageSize query values of the list requests: none, numbers below, in
\* and above 1..1000, and a value that is no number.
PageSizeQueries ==
    { <<>>, <<"0">>, <<"-", "1">>, <<"2">>, <<"1", "0", "0", "0">>,
      <<"1", "0", "0", "1">>, <<"x">> }

\* GET .../secrets and GET .../secrets/s/versions with each of the values.
ListRequests ==
    { [method |-> "GET", path |-> path,
       body |-> [valid |-> FALSE, secretId |-> <<>>, secret |-> NilPointer,
                 payload |-> NilPointer],
       query |-> [pageSize |-> ps, pageToken |-> <<>>], local |-> <<>>] :
        path \in { SecretsPath(ListProject), VersionsPath(ListProject, ListVersioned) },
        ps \in PageSizeQueries }

\* The longest list that is paged.
MaxListLen == 101

\* Lines 241-265 (and 357-381) on a sorted list of len items, given as their
\* offsets, with a page size of any sign.
PageOf ==
    \E len \in {0, 1} \cup ((DefaultPageSize - 1)..MaxListLen),
       pageSize \in {-1, 0, 1, 100, 1000} :
        /\ list' = [op |-> "Page", len |-> len, pageSize |-> pageSize,
                    page |-> Page([i \in 1..len |-> i - 1], pageSize, <<>>)]
        /\ UNCHANGED <<mvars, pvars, hvars>>

\* The server over a store of five secrets, one of them with four versions.
PageSizeInit ==
    /\ secrets = StoreListed(ListSecretIDs, ListVersionNumbers)
    /\ mu = [writer |-> NoGoroutine, readers |-> {}]
    /\ pc = [g \in Goroutines |-> "idle"]
    /\ call = [g \in Goroutines |-> NoCall]
    /\ ret = [g \in Goroutines |-> NoRet]
    /\ issued = <<>>
    /\ NoPersistentCall
    /\ file = FileAbsent
    /\ list = NoList
    /\ NoServing

PageSizeNext ==
    \/ ReceiveFrom(ListCaller, ListRequests)
    \/ ServeToStore(ListCaller)
    \/ ServeList(ListCaller)
    \/ ServeResponse(ListCaller)
    \/ PageOf

\* One goroutine of the server serves list requests; the paging of the store
\* is also applied to lists longer than the default page size.
PageSizeSpec == PageSizeInit /\ [][PageSizeNext]_vars

\* ------------------------------------------- access next to other requests
\* GET ...:access of "latest" and of "1", POST ...:addVersion of the payload
\* "x", DELETE of version "1" and DELETE of the secret.
AccessRequests ==
    LET request(method, path, payload) ==
            [method |-> method, path |-> path,
             body |-> [valid |-> payload # NilPointer, secretId |-> <<>>,
                       secret |-> NilPointer, payload |-> payload],
             query |-> [pageSize |-> <<>>, pageToken |-> <<>>], local |-> <<>>]
        p == AddsTarget[1]
        s == AddsTarget[2]
    IN  { request("GET", VersionPath(p, s, v) \o StrAccess, NilPointer) :
            v \in { StrLatest, <<"1">> } }
        \cup { request("POST", SecretPath(p, s) \o StrAddVersion, [data |-> <<120>>]),
               request("DELETE", VersionPath(p, s, <<"1">>), NilPointer),
               request("DELETE", SecretPath(p, s), NilPointer) }

\* The store after CreateSecret and one AddSecretVersion of "abc".
AccessInit ==
    /\ secrets = [key \in {AddsKey} |->
                    AddSecretVersionStoreOn(
                        AddSecretVersionIncrOn(
                            [k \in {AddsKey} |->
                               NewSecret(AddsTarget[1], AddsTarget[2], NilLabels,
                                         CHOOSE stamp \in Stamps : TRUE)],
                            AddsTarget[1], AddsTarget[2]).secrets,
                        AddsTarget[1], AddsTarget[2], <<97, 98, 99>>,
                        CHOOSE stamp \in Stamps : TRUE).secrets[key]]
    /\ mu = [writer |-> NoGoroutine, readers |-> {}]
    /\ pc = [g \in Goroutines |-> "idle"]
    /\ call = [g \in Goroutines |-> NoCall]
    /\ ret = [g \in Goroutines |-> NoRet]
    /\ issued = [key \in {AddsKey} |-> << <<"1">> >>]
    /\ NoPersistentCall
    /\ file = FileAbsent
    /\ list = NoList
    /\ NoServing

AccessNext ==
    \E g \in Goroutines :
        \/ ReceiveFrom(g, AccessRequests)
        \/ ServeToStore(g)
        \/ DeleteSecret(g) /\ UNCHANGED <<pvars, list, hvars>>
        \/ AddSecretVersionIncr(g) /\ UNCHANGED <<pvars, list, hvars>>
        \/ AddSecretVersion(g) /\ UNCHANGED <<pvars, list, hvars>>
        \/ AccessSecretVersion(g) /\ UNCHANGED <<pvars, list, hvars>>
        \/ ServeResponse(g)
        \/ ServeAccessMetadata(g)
        \/ GetSecretVersion(g) /\ UNCHANGED <<pvars, list, hvars>>
        \/ ServeAccessResponse(g)
        \/ DeleteSecretVersion(g) /\ UNCHANGED <<pvars, list, hvars>>

\* Two goroutines of the server serve access, add and delete requests on a
\* secret that has a version.
AccessSpec == AccessInit /\ [][AccessNext]_vars

\* ----------------------------------------------------- the restored store
\* Load as written does not get past line 55 when the file parses.  What the
\* server does with a store that Load has installed is seen by taking that
\* lock as granted: the map is json.Unmarshal of the file, and main serves.
\* Every secret of this store was put there by Load, and only NewSecret
\* makes a Versions map (part_000:58): the Versions map of each is nil.

\* The run-time panic of an assignment to an entry of a nil map.
PanicNilMap == "panic: assignment to entry in nil map"

\* Lines 294-297 on a secret whose Versions map is nil: the assignment of
\* line 297 panics, the deferred Unlock runs, and the panic leaves
\* MemoryStorage.AddSecretVersion with the counter raised and no version.
AddSecretVersionNilMap(g) ==
    /\ pc[g] = "incremented" /\ call[g].op = "AddSecretVersion"
    /\ secrets[Key(call[g].projectID, call[g].secretID)].Versions = NilVersions
    /\ UNCHANGED <<secrets, issued>>
    /\ UnlockAndReturn(g, [err |-> PanicNilMap])

\* The store that Load installs from the file a Save has written of a store
\* with secrets and versions; issued keeps the ids that were assigned to
\* each secret before the file was written.
RestoredInit ==
    /\ \E ids \in SUBSET { <<"a">>, ListVersioned }, nums \in SUBSET ListVersionNumbers :
         LET saved == StoreListed(ids, nums) IN
         /\ file = FileSnapshot(MarshalIndent(saved))
         /\ secrets = Unmarshal(file.data)
         /\ issued = [key \in DOMAIN saved |->
                        [i \in 1..saved[key].VersionCount |-> Itoa(i)]]
    /\ mu = [writer |-> NoGoroutine, readers |-> {}]
    /\ pc = [g \in Goroutines |-> "idle"]
    /\ call = [g \in Goroutines |-> NoCall]
    /\ ret = [g \in Goroutines |-> NoRet]
    /\ pmu = [writer |-> NoGoroutine, readers |-> {}]
    /\ ppc = [g \in Processes |-> IF g = MainGoroutine THEN "serving" ELSE "idle"]
    /\ pcall = [g \in Processes |-> NoCall]
    /\ pret = [g \in Processes |->
                 IF g = MainGoroutine THEN [op |-> "Load", err |-> ErrNil] ELSE NoRet]
    /\ list = NoList
    /\ NoServing

\* The server's goroutines add versions and read.
RestoredNext ==
    \E g \in Goroutines :
        \/ AddSecretVersionLock(g) /\ PersistentEnter(g)
        \/ PersistentAddSecretVersionIncr(g)
        \/ AddSecretVersionNilMap(g) /\ AfterInner(g)
        \/ GetSecretVersionRLock(g) /\ Promoted(g)
        \/ GetSecretVersion(g) /\ UNCHANGED <<pvars, list, hvars>>

RestoredSpec == RestoredInit /\ [][RestoredNext]_vars

\* ------------------------------------------------ ids that are route words
\* Ids of the requests: an ordinary id, the three words of the routes, and
\* an id that begins with one of them.
WordIDs == { <<"x">>, WordProjects, WordSecrets, WordVersions, WordVersions \o <<"2">> }

\* GET and DELETE of a secret, GET of its versions, DELETE of a version and
\* GET of a version with :access, for every choice of the ids.  With each
\* request goes what the client meant by it.
WordRequests ==
    LET request(method, path, op, p, s, v) ==
            [method |-> method, path |-> path,
             body |-> [valid |-> FALSE, secretId |-> <<>>, secret |-> NilPointer,
                       payload |-> NilPointer],
             query |-> [pageSize |-> <<>>, pageToken |-> <<>>], local |-> <<>>,
             meant |-> [op |-> op, projectID |-> p, secretID |-> s, versionID |-> v]]
    IN  UNION { { request("GET", SecretPath(p, s), "GetSecret", p, s, <<>>),
                  request("DELETE", SecretPath(p, s), "DeleteSecret", p, s, <<>>),
                  request("GET", VersionsPath(p, s), "ListSecretVersions", p, s, <<>>) }
                \cup UNION { { request("DELETE", VersionPath(p, s, v),
                                       "DeleteSecretVersion", p, s, v),
                               request("GET", VersionPath(p, s, v) \o StrAccess,
                                       "AccessSecretVersion", p, s, v) } :
                             v \in WordIDs } :
                p \in WordIDs, s \in WordIDs }

WordNext ==
    \/ ReceiveFrom(ListCaller, WordRequests)
    \/ ServeWithoutStore(ListCaller)
    \/ ServeToStore(ListCaller)
    \/ GetSecret(ListCaller) /\ UNCHANGED <<pvars, list, hvars>>
    \/ DeleteSecret(ListCaller) /\ UNCHANGED <<pvars, list, hvars>>
    \/ ServeList(ListCaller)
    \/ DeleteSecretVersion(ListCaller) /\ UNCHANGED <<pvars, list, hvars>>
    \/ AccessSecretVersion(ListCaller) /\ UNCHANGED <<pvars, list, hvars>>
    \/ ServeResponse(ListCaller)

\* One goroutine of the server serves the requests on a new store.
WordSpec == Init /\ [][WordNext]_vars

\* =================================================================== claims
\* The map key a call addresses.
KeyOf(c) == Key(c.projectID, c.secretID)
\* Goroutine g's call of operation op returns in this step.
Completes(g, op) == pc[g] # "idle" /\ call[g].op = op /\ pc'[g] = "idle"
\* No goroutine is between the increment and the store of an AddSecretVersion on k.
NoAddInFlight(k) ==
    \A g \in Goroutines : ~(pc[g] = "incremented" /\ KeyOf(call[g]) = k)

\* C1: CreateSecret on a key that already exists returns ErrSecretExists and
\* leaves the whole map - the stored secret's metadata, versions and
\* counter - exactly as it was.
C1_CreateExistingFails ==
    [][\A g \in Goroutines :
         (Completes(g, "CreateSecret") /\ MapHas(secrets, KeyOf(call[g])))
            => /\ ret'[g].err = ErrSecretExists
               /\ secrets' = secrets]_vars

\* The last call of every goroutine was a CreateSecret that was refused,
\* and the secret holds a version: it held it when the last of them returned.
C1_Witness ==
    \E k \in DOMAIN secrets :
        /\ \A g \in Goroutines :
             /\ pc[g] = "idle"
             /\ ret[g] = [op |-> "CreateSecret", err |-> ErrSecretExists]
        /\ secrets[k].VersionCount >= 1
        /\ DOMAIN secrets[k].Versions # {}

\* C2: the AddSecretVersion calls that run against one secret, in whatever
\* interleaving, return pairwise distinct ids that fill a contiguous range:
\* the calls that found the counter at c and were the next M to return got
\* exactly the ids c+1..c+M, and the counter then stands at c+M.
C2_ConcurrentAddsContiguous ==
    \A k \in DOMAIN secrets :
        /\ NoAddInFlight(k) => secrets[k].VersionCount = Len(issued[k])
        /\ \A c \in 0..Len(issued[k]) : \A M \in 1..(Len(issued[k]) - c) :
             LET ids == { issued[k][i] : i \in (c + 1)..(c + M) } IN
                 /\ Cardinality(ids) = M
                 /\ ids = { Itoa(n) : n \in (c + 1)..(c + M) }

\* Both goroutines' last calls were successful AddSecretVersion calls on the
\* same secret, and they hold different ids.
C2_Witness ==
    \E k \in DOMAIN secrets :
        /\ \A g \in Goroutines : ret[g].op = "AddSecretVersion" /\ ret[g].err = ErrNil
        /\ Len(issued[k]) = 2
        /\ { ret[g].versionID : g \in Goroutines } = { <<"1">>, <<"2">> }

\* C3: on a secret created empty the N-th AddSecretVersion to return gets
\* the id Itoa(N), so sequential calls get "1", "2", ..., "N" in call order;
\* the version it returns carries that id, and GetSecretVersion with
\* "latest" then returns that same version.
C3_SequentialIds ==
    [][\A g \in Goroutines :
         Completes(g, "AddSecretVersion") /\ ret'[g].err = ErrNil
            => LET k == KeyOf(call[g])
                   N == Len(issued'[k])
               IN  /\ N = Len(issued[k]) + 1
                   /\ \A i \in 1..N : issued'[k][i] = Itoa(i)
                   /\ ret'[g].versionID = Itoa(N)
                   /\ GetVersionID(ret'[g].version.Name) = Itoa(N)
                   /\ GetSecretVersionOn(secrets', call[g].projectID,
                          call[g].secretID, StrLatest)
                        = [err |-> ErrNil, version |-> ret'[g].version]]_vars

\* A second AddSecretVersion returned "2" and "latest" resolves to it.
C3_Witness ==
    \E g \in Goroutines, k \in DOMAIN secrets :
        /\ ret[g].op = "AddSecretVersion" /\ ret[g].err = ErrNil
        /\ ret[g].versionID = <<"2">>
        /\ issued[k] = << <<"1">>, <<"2">> >>
        /\ \E t \in Targets :
             /\ Key(t[1], t[2]) = k
             /\ GetSecretVersionOn(secrets, t[1], t[2], StrLatest).err = ErrNil
             /\ GetSecretVersionOn(secrets, t[1], t[2], StrLatest).version = ret[g].version

\* C4: DeleteSecretVersion leaves every counter as it was, and the next
\* AddSecretVersion returns the id one above the number of ids the secret
\* has handed out, an id that secret has never handed out before.
C4_DeleteKeepsCounter ==
    [][\A g \in Goroutines :
         /\ Completes(g, "DeleteSecretVersion")
               => /\ DOMAIN secrets' = DOMAIN secrets
                  /\ \A k \in DOMAIN secrets :
                       secrets'[k].VersionCount = secrets[k].VersionCount
         /\ (Completes(g, "AddSecretVersion") /\ ret'[g].err = ErrNil)
               => /\ ret'[g].versionID \notin Range(issued[KeyOf(call[g])])
                  /\ ret'[g].versionID = Itoa(Len(issued[KeyOf(call[g])]) + 1)
                  /\ ret'[g].versionID = Itoa(secrets'[KeyOf(call[g])].VersionCount)]_vars

\* An AddSecretVersion is returning "2" on a secret whose version "1" was
\* deleted before the call began.
C4_Witness ==
    \E g \in Goroutines, k \in DOMAIN secrets :
        /\ pc[g] = "incremented" /\ KeyOf(call[g]) = k
        /\ issued[k] = << <<"1">> >>
        /\ DOMAIN secrets[k].Versions = {}
        /\ secrets[k].VersionCount = 2

\* C5: in every state GetSecretVersion with "latest" gives the version
\* stored under the text of the counter when there is one and
\* ErrVersionNotFound otherwise, whatever lower-numbered versions exist.
C5_LatestIsCounter ==
    \A t \in Targets :
        MapHas(secrets, Key(t[1], t[2]))
           => LET secret == secrets[Key(t[1], t[2])]
                  id == Itoa(secret.VersionCount)
                  got == GetSecretVersionOn(secrets, t[1], t[2], StrLatest)
              IN  IF MapHas(secret.Versions, id)
                  THEN got = [err |-> ErrNil, version |-> secret.Versions[id]]
                  ELSE got = [err |-> ErrVersionNotFound]

\* A GetSecretVersion with "latest" holds the read lock on a secret whose
\* highest version was deleted while version "1" is still stored, and the
\* result it computes is ErrVersionNotFound.
C5_Witness ==
    \E g \in Goroutines :
        /\ pc[g] = "rlocked" /\ call[g].op = "GetSecretVersion"
        /\ call[g].versionID = StrLatest
        /\ MapHas(secrets, KeyOf(call[g]))
        /\ secrets[KeyOf(call[g])].VersionCount = 2
        /\ DOMAIN secrets[KeyOf(call[g])].Versions = { <<"1">> }
        /\ GetSecretVersionOn(secrets, call[g].projectID, call[g].secretID,
               call[g].versionID) = [err |-> ErrVersionNotFound]

\* The ids AddSecretVersion can return within the bounds.
AssignableIDs == { Itoa(n) : n \in 1..(MaxVersionCount + 2) }

\* C6: the payload given to a successful AddSecretVersion is what
\* AccessSecretVersion returns for the id that call returned, right after
\* the call and after every later step, until a DeleteSecretVersion of that
\* id or a DeleteSecret of that secret succeeds.
C6_AddAccessRoundTrip ==
    [][/\ \A g \in Goroutines :
            (Completes(g, "AddSecretVersion") /\ ret'[g].err = ErrNil)
               => AccessSecretVersionOn(secrets', call[g].projectID,
                      call[g].secretID, ret'[g].versionID)
                    = [err |-> ErrNil, data |-> call[g].data]
       /\ \A t \in Targets, v \in AssignableIDs :
            LET before == AccessSecretVersionOn(secrets, t[1], t[2], v)
                after == AccessSecretVersionOn(secrets', t[1], t[2], v)
            IN  (before.err = ErrNil /\ after # before)
                   => \E g \in Goroutines :
                        /\ \/ Completes(g, "DeleteSecret")
                           \/ /\ Completes(g, "DeleteSecretVersion")
                              /\ call[g].versionID = v
                        /\ KeyOf(call[g]) = Key(t[1], t[2])
                        /\ ret'[g].err = ErrNil]_vars

\* An AccessSecretVersion of version "1" holds the read lock after a second
\* version with another payload was added; it is about to return "abc", the
\* payload version "1" was added with.
C6_Witness ==
    \E g \in Goroutines, t \in Targets :
        /\ pc[g] = "rlocked" /\ call[g].op = "AccessSecretVersion"
        /\ call[g].projectID = t[1] /\ call[g].secretID = t[2]
        /\ call[g].versionID = <<"1">>
        /\ MapHas(secrets, Key(t[1], t[2]))
        /\ issued[Key(t[1], t[2])] = << <<"1">>, <<"2">> >>
        /\ AccessSecretVersionOn(secrets, t[1], t[2], <<"1">>)
             = [err |-> ErrNil, data |-> <<97, 98, 99>>]
        /\ AccessSecretVersionOn(secrets, t[1], t[2], <<"2">>)
             = [err |-> ErrNil, data |-> <<>>]

\* C7: AddSecretVersion on a key with no secret returns ErrSecretNotFound
\* and no version and leaves the map as it was; on a stored secret it adds
\* one to that secret's counter and nothing else, then stores one version,
\* holding the call's payload, under the text of the new counter, where
\* there was none, and returns it; no other step changes the map in between.
C7_AddEffect ==
    [][\A g \in Goroutines :
         LET k == KeyOf(call[g]) IN
         /\ (pc[g] = "locked" /\ call[g].op = "AddSecretVersion" /\ pc'[g] # "locked")
               => IF ~MapHas(secrets, k)
                  THEN /\ ret'[g] = [op |-> "AddSecretVersion", err |-> ErrSecretNotFound]
                       /\ pc'[g] = "idle"
                       /\ secrets' = secrets
                  ELSE /\ pc'[g] = "incremented"
                       /\ secrets' = [secrets EXCEPT
                              ![k].VersionCount = secrets[k].VersionCount + 1]
         /\ (pc[g] = "incremented" /\ pc'[g] = "incremented") => secrets' = secrets
         /\ (pc[g] = "incremented" /\ pc'[g] # "incremented")
               => LET id == Itoa(secrets[k].VersionCount) IN
                  /\ ret'[g].err = ErrNil
                  /\ ret'[g].versionID = id
                  /\ ret'[g].version.Data = call[g].data
                  /\ ~MapHas(secrets[k].Versions, id)
                  /\ secrets' = [secrets EXCEPT
                         ![k].Versions = MapPut(secrets[k].Versions, id, ret'[g].version)]]_vars

\* One goroutine's AddSecretVersion found no secret and returned
\* ErrSecretNotFound; the other's, on the secret created since, returned "1".
C7_Witness ==
    \E g, h \in Goroutines :
        /\ ret[g] = [op |-> "AddSecretVersion", err |-> ErrSecretNotFound]
        /\ ret[h].op = "AddSecretVersion" /\ ret[h].err = ErrNil
        /\ ret[h].versionID = <<"1">>
        /\ \E k \in DOMAIN secrets :
             secrets[k].VersionCount = 1 /\ DOMAIN secrets[k].Versions = { <<"1">> }

\* Every operation on (projectID, secretID) reports ErrSecretNotFound.
AllReportSecretNotFound(s, projectID, secretID) ==
    /\ GetSecretOn(s, projectID, secretID) = [err |-> ErrSecretNotFound]
    /\ \A v \in VersionIDs \cup AssignableIDs :
         /\ GetSecretVersionOn(s, projectID, secretID, v) = [err |-> ErrSecretNotFound]
         /\ AccessSecretVersionOn(s, projectID, secretID, v) = [err |-> ErrSecretNotFound]
         /\ DeleteSecretVersionOn(s, projectID, secretID, v)
              = [secrets |-> s, err |-> ErrSecretNotFound]
    /\ \A size \in 0..2, token \in { <<>>, <<"1">> } :
         ListSecretVersionsOn(s, projectID, secretID, size, token)
           = [err |-> ErrSecretNotFound]
    /\ AddSecretVersionIncrOn(s, projectID, secretID)
         = [secrets |-> s, err |-> ErrSecretNotFound]

\* C8: DeleteSecret returns ErrSecretNotFound when the key has no secret; a
\* successful DeleteSecret removes the secret with all its versions in its
\* one step; and in every state a key either has a secret or every
\* operation on it reports ErrSecretNotFound, so no version is readable
\* while its secret is absent.
C8_DeleteSecretAtomic ==
    /\ [](\A t \in Targets :
            \/ GetSecretOn(secrets, t[1], t[2]).err = ErrNil
            \/ AllReportSecretNotFound(secrets, t[1], t[2]))
    /\ [][\A g \in Goroutines :
            Completes(g, "DeleteSecret")
               => IF MapHas(secrets, KeyOf(call[g]))
                  THEN /\ ret'[g].err = ErrNil
                       /\ secrets' = MapDelete(secrets, KeyOf(call[g]))
                       /\ AllReportSecretNotFound(secrets', call[g].projectID,
                              call[g].secretID)
                  ELSE /\ ret'[g].err = ErrSecretNotFound
                       /\ secrets' = secrets]_vars

\* One goroutine's last call added version "1"; the other's DeleteSecret
\* then succeeded, the map is empty and every operation on the key reports
\* ErrSecretNotFound.
C8_Witness ==
    \E g, h \in Goroutines :
        /\ ret[g] = [op |-> "DeleteSecret", err |-> ErrNil]
        /\ ret[h].op = "AddSecretVersion" /\ ret[h].err = ErrNil
        /\ pc[g] = "idle" /\ pc[h] = "idle"
        /\ secrets = <<>>
        /\ \A t \in Targets : AllReportSecretNotFound(secrets, t[1], t[2])

\* The id GetSecretVersion looks up for the versionID it is given.
Resolved(secret, versionID) ==
    IF versionID = StrLatest THEN Itoa(secret.VersionCount) ELSE versionID

\* C9: GetSecretVersion returns ErrSecretNotFound when the key has no
\* secret, ErrVersionNotFound when the secret has no version under the
\* resolved id, and that version otherwise; AccessSecretVersion returns the
\* same error in the same state and otherwise that version's Data.
C9_GetAccessOutcomes ==
    [][\A g \in Goroutines :
         LET k == KeyOf(call[g])
             expected ==
                 IF ~MapHas(secrets, k) THEN ErrSecretNotFound
                 ELSE IF ~MapHas(secrets[k].Versions, Resolved(secrets[k], call[g].versionID))
                 THEN ErrVersionNotFound
                 ELSE ErrNil
             stored == secrets[k].Versions[Resolved(secrets[k], call[g].versionID)]
         IN
         /\ Completes(g, "GetSecretVersion")
               => /\ ret'[g].err = expected
                  /\ expected = ErrNil => ret'[g].version = stored
                  /\ ret'[g].err
                       = AccessSecretVersionOn(secrets, call[g].projectID,
                             call[g].secretID, call[g].versionID).err
         /\ Completes(g, "AccessSecretVersion")
               => /\ ret'[g].err = expected
                  /\ expected = ErrNil => ret'[g].data = stored.Data
                  /\ ret'[g].err
                       = GetSecretVersionOn(secrets, call[g].projectID,
                             call[g].secretID, call[g].versionID).err]_vars

\* "latest" on a secret with no versions: one goroutine's GetSecretVersion
\* returned ErrVersionNotFound and the other's AccessSecretVersion is about
\* to return the same.
C9_Witness ==
    \E g, h \in Goroutines :
        /\ ret[g] = [op |-> "GetSecretVersion", err |-> ErrVersionNotFound]
        /\ pc[h] = "rlocked" /\ call[h].op = "AccessSecretVersion"
        /\ call[h].versionID = StrLatest
        /\ MapHas(secrets, KeyOf(call[h]))
        /\ secrets[KeyOf(call[h])].VersionCount = 0
        /\ AccessSecretVersionOn(secrets, call[h].projectID, call[h].secretID,
               call[h].versionID) = [err |-> ErrVersionNotFound]

\* C10: DeleteSecretVersion returns ErrSecretNotFound when the key has no
\* secret and ErrVersionNotFound when the secret has no version under the id
\* it is given; otherwise it removes that one entry of the secret's version
\* map and changes nothing else.
C10_DeleteVersionEffect ==
    [][\A g \in Goroutines :
         Completes(g, "DeleteSecretVersion")
            => LET k == KeyOf(call[g]) IN
               IF ~MapHas(secrets, k)
               THEN ret'[g].err = ErrSecretNotFound
               ELSE IF ~MapHas(secrets[k].Versions, call[g].versionID)
               THEN ret'[g].err = ErrVersionNotFound
               ELSE /\ ret'[g].err = ErrNil
                    /\ secrets' = [secrets EXCEPT ![k].Versions =
                           MapDelete(secrets[k].Versions, call[g].versionID)]
                    /\ secrets'[k].VersionCount = secrets[k].VersionCount
                    /\ \A v \in DOMAIN secrets[k].Versions \ {call[g].versionID} :
                         /\ MapHas(secrets'[k].Versions, v)
                         /\ secrets'[k].Versions[v] = secrets[k].Versions[v]]_vars

\* A DeleteSecretVersion succeeded, and the secret that was given the ids
\* "1" and "2" holds version "2" alone and has its counter at 2.
C10_Witness ==
    \E g \in Goroutines, k \in DOMAIN secrets :
        /\ ret[g] = [op |-> "DeleteSecretVersion", err |-> ErrNil]
        /\ issued[k] = << <<"1">>, <<"2">> >>
        /\ secrets[k].VersionCount = 2
        /\ DOMAIN secrets[k].Versions = { <<"2">> }

\* The number a listed version's id stands for.
VersionNumber(version) == Atoi(GetVersionID(version.Name)).n

\* The items a listing call of goroutine g ranges over: the versions of the
\* secret it names, or the secrets of the project it names.
Listed(g) ==
    IF call[g].op = "ListSecretVersions"
    THEN { secrets[KeyOf(call[g])].Versions[v] :
             v \in DOMAIN secrets[KeyOf(call[g])].Versions }
    ELSE { secrets[k] : k \in { x \in DOMAIN secrets :
                                  HasPrefix(x, call[g].projectID \o <<"/">>) } }

\* C11: ListSecretVersions fails with ErrSecretNotFound when the secret is
\* absent; otherwise the versions it returns, page after page, are stored
\* versions in strictly descending order of the numbers of their ids ("10"
\* before "9"), and when the listing ends every stored version has been
\* returned exactly once.
C11_ListVersionsDescending ==
    [][\A g \in Goroutines :
         Completes(g, "ListSecretVersions") =>
           IF ~MapHas(secrets, KeyOf(call[g]))
           THEN ret'[g].err = ErrSecretNotFound
           ELSE /\ ret'[g].err = ErrNil
                /\ \A i \in 1..Len(list'.got) : list'.got[i] \in Listed(g)
                /\ \A i, j \in 1..Len(list'.got) :
                     i < j => VersionNumber(list'.got[i]) > VersionNumber(list'.got[j])
                /\ ~list'.more => Len(list'.got) = Cardinality(Listed(g))]_vars

\* A listing of the versions 10, 9, 2, 1 that took two calls of page size 2
\* and returned them in that order.
C11_Witness ==
    /\ list.op = "ListSecretVersions" /\ ~list.more /\ list.err = ErrNil
    /\ list.pageSize = 2 /\ list.calls = 2
    /\ [i \in 1..Len(list.got) |-> GetVersionID(list.got[i].Name)]
         = << <<"1", "0">>, <<"9">>, <<"2">>, <<"1">> >>

\* C12: with the store unchanged, a caller that starts with the empty token
\* and passes each returned token to the next call gets, over n items with
\* page size k >= 1, pages of min(k, items left) items in sorted order without
\* repeats; the token returned is the decimal count of the items returned so
\* far while items remain and empty otherwise; and the listing ends, with all
\* n items returned, after ceil(n/k) calls (one call when n = 0).
C12_PagingEnumerates ==
    [][\A g \in Goroutines :
         /\ Completes(g, "ListSecrets") \/ Completes(g, "ListSecretVersions")
         /\ ret'[g].err = ErrNil
         /\ call[g].pageSize >= 1
         => LET n == Cardinality(Listed(g))
                k == call[g].pageSize
                left == n - Len(list.got)
            IN  /\ Len(ret'[g].items) = (IF k < left THEN k ELSE left)
                /\ list'.got = list.got \o ret'[g].items
                /\ \A i \in 1..Len(list'.got) : list'.got[i] \in Listed(g)
                /\ \A i, j \in 1..Len(list'.got) :
                     i < j => IF call[g].op = "ListSecrets"
                              THEN StrGreater(list'.got[j].Name, list'.got[i].Name)
                              ELSE VersionNumber(list'.got[i]) > VersionNumber(list'.got[j])
                /\ ret'[g].nextPageToken
                     = (IF Len(list'.got) < n THEN Itoa(Len(list'.got)) ELSE <<>>)
                /\ list'.more = (Len(list'.got) < n)
                /\ ~list'.more =>
                     list'.calls = (IF n = 0 THEN 1 ELSE (n + k - 1) \div k)]_vars

\* Five secrets listed with page size 2: the third call returned the last
\* one and no token.
C12_Witness ==
    /\ list.op = "ListSecrets" /\ ~list.more /\ list.pageSize = 2
    /\ list.calls = 3 /\ Len(list.got) = 5
    /\ ret[ListCaller].op = "ListSecrets" /\ ret[ListCaller].nextPageToken = <<>>
    /\ Len(ret[ListCaller].items) = 1

\* Goroutine g waits for p.mu while it holds p.mu's write lock itself.  The
\* write lock is released only by its holder's deferred Unlock, which runs
\* when the holder's call returns, so g waits forever.
WaitsForItself(g) ==
    /\ ppc[g] \in {"Save.waiting", "Load.waiting"}
    /\ pmu.writer = g

\* C14: Save - called by Close and by the persistent CreateSecret,
\* DeleteSecret, AddSecretVersion and DeleteSecretVersion - never waits
\* forever for a lock: no goroutine inside Save waits for p.mu while the lock
\* it waits for is its own.
C14_SaveNeverBlocks ==
    \A g \in Processes : ~(ppc[g] = "Save.waiting" /\ WaitsForItself(g))

\* C15: Load on a file that exists and parses never waits forever for a
\* lock: the goroutine inside Load never waits for p.mu while the lock it
\* waits for is its own.
C15_LoadNeverBlocks ==
    \A g \in Processes : ~(ppc[g] = "Load.waiting" /\ WaitsForItself(g))

\* C19: Load returns from its first statement after the lock when there is
\* no parsed data to install: with no file it returns success and the map
\* is empty as before; with a file that cannot be read, or that does not
\* parse, it returns that error and the map is as before.
C19_LoadWithoutData ==
    [][\A g \in Processes :
         ppc[g] = "Load.locked" /\ ppc'[g] # "Load.locked" /\ file.kind # "snapshot"
         => /\ ppc'[g] = "serving"
            /\ pret'[g].op = "Load"
            /\ secrets' = secrets
            /\ pmu'.writer = NoGoroutine
            /\ file.kind = "absent" => pret'[g].err = ErrNil /\ secrets' = <<>>
            /\ file.kind = "unreadable" => pret'[g].err = ErrReadFile
            /\ file.kind = "garbage" => pret'[g].err = ErrParseFile]_vars

\* main's Load has returned the parse error of a file that does not parse.
C19_Witness ==
    /\ file.kind = "garbage"
    /\ ppc[MainGoroutine] = "serving"
    /\ pret[MainGoroutine] = [op |-> "Load", err |-> ErrParseFile]
    /\ secrets = <<>>

\* The positions of a persistent mutating operation between the return of
\* its in-memory step and the return of its Save.
BeforeSaved == {"Save", "Save.locked", "Save.waiting", "Save.rlocked"}

\* C20: while a persistent mutating operation is between its in-memory
\* change and the end of its Save, no other goroutine is inside an
\* operation on the resource map.
C20_NoAccessBeforeSaved ==
    \A g, h \in Goroutines :
        (g # h /\ ppc[g] \in BeforeSaved) => pc[h] = "idle"

\* The persistent operations that change the map.
Mutating == {"CreateSecret", "DeleteSecret", "AddSecretVersion", "DeleteSecretVersion"}
\* Goroutine g's persistent mutating operation returns in this step.
PersistentCompletes(g) ==
    ppc[g] # "idle" /\ pcall[g].op \in Mutating /\ ppc'[g] = "idle"
\* Its Save has returned, with error e.
SaveReturned(g, e) == pret[g] = [op |-> "Save", err |-> e]

WritesSecrets(g) ==
    \/ pc[g] \in {"locked", "incremented"}
    \/ ppc[g] = "rollback.locked"
\* Goroutine g is at a statement that reads them: the body of a read-only
\* MemoryStorage operation, or Save's json.MarshalIndent of p.secrets.
ReadsSecrets(g) ==
    \/ pc[g] = "rlocked"
    \/ ppc[g] = "Save.snapshot"

FileIncludes(data, c, r) ==
    LET key == KeyOf(c)
        restored == Unmarshal(data)
    IN  IF c.op = "CreateSecret"
        THEN MapHas(restored, key) /\ Metadata(restored[key]) = Metadata(c.secret)
        ELSE IF c.op = "DeleteSecret"
        THEN ~MapHas(restored, key)
        ELSE IF c.op = "AddSecretVersion"
        THEN MapHas(restored, key) /\ MapHas(restored[key].Versions, r.versionID)
        ELSE MapHas(restored, key) /\ ~MapHas(restored[key].Versions, c.versionID)

ReadOnly ==
    {"GetSecret", "ListSecrets", "GetSecretVersion", "ListSecretVersions",
     "AccessSecretVersion"}

\* Goroutine g takes a step of the MemoryStorage operation op in this step.
StepsIn(g, op) ==
    /\ pc'[g] # pc[g]
    /\ op = (IF pc[g] = "idle" THEN call'[g].op ELSE call[g].op)

\* C23: a step of GetSecret, ListSecrets, GetSecretVersion,
\* ListSecretVersions or AccessSecretVersion leaves the map with every
\* secret's counter and versions as it was, and on the persistent store it
\* leaves the file, PersistentStorage's lock and every goroutine's position
\* in PersistentStorage as they were: it neither enters Save nor Load.
C23_ReadOnlyChangesNothing ==
    [][\A g \in Goroutines, op \in ReadOnly :
         StepsIn(g, op)
         => /\ secrets' = secrets
            /\ file' = file
            /\ pmu' = pmu
            /\ ppc' = ppc]_vars

\* On a store with two secrets, one of them with versions "1" and "2", a
\* goroutine's AccessSecretVersion has returned the payload of "latest" and
\* the listing caller's ListSecretVersions both versions; the store and the
\* file are what they were.
C23_Witness ==
    /\ secrets = StoreListed(ReadSecretIDs, ReadVersionNumbers)
    /\ file = FileGarbage
    /\ \E g \in Goroutines :
         /\ g # ListCaller
         /\ pc[g] = "idle"
         /\ ret[g] = [op |-> "AccessSecretVersion", err |-> ErrNil, data |-> <<>>]
    /\ pc[ListCaller] = "idle"
    /\ ret[ListCaller].op = "ListSecretVersions"
    /\ ret[ListCaller].err = ErrNil
    /\ Len(ret[ListCaller].items) = 2
    /\ \A g \in Goroutines : ppc[g] = "idle"

C30_EtagChanges ==
    [][\A g \in Goroutines :
         LET k == KeyOf(call[g]) IN
         /\ \/ Completes(g, "AddSecretVersion")
            \/ Completes(g, "DeleteSecretVersion")
         /\ ret'[g].err = ErrNil
         => GetSecretOn(secrets', call[g].projectID, call[g].secretID).secret.Etag
              # GetSecretOn(secrets, call[g].projectID, call[g].secretID).secret.Etag]_vars

\* The ids the routes of the API are written out for.
PathIDs == { <<"p">>, <<"s">>, <<"1">>, StrLatest }

\* The operation a request addresses by the routes of the API, "none" when
\* its method and path are those of no route.
Endpoint(r) ==
    IF r.method = "POST" /\ \E p \in PathIDs : r.path = SecretsPath(p)
    THEN "CreateSecret"
    ELSE IF r.method = "GET" /\ \E p \in PathIDs : r.path = SecretsPath(p)
    THEN "ListSecrets"
    ELSE IF r.method = "GET" /\ \E p, s \in PathIDs : r.path = SecretPath(p, s)
    THEN "GetSecret"
    ELSE IF r.method = "DELETE" /\ \E p, s \in PathIDs : r.path = SecretPath(p, s)
    THEN "DeleteSecret"
    ELSE IF r.method = "POST"
            /\ \E p, s \in PathIDs : r.path = SecretPath(p, s) \o StrAddVersion
    THEN "AddSecretVersion"
    ELSE IF r.method = "GET"
            /\ \E p, s, v \in PathIDs : r.path = VersionPath(p, s, v) \o StrAccess
    THEN "AccessSecretVersion"
    ELSE IF r.method = "GET" /\ \E p, s \in PathIDs : r.path = VersionsPath(p, s)
    THEN "ListSecretVersions"
    ELSE IF r.method = "DELETE"
            /\ \E p, s, v \in PathIDs : r.path = VersionPath(p, s, v)
    THEN "DeleteSecretVersion"
    ELSE "none"

\* Goroutine g's handler returns in this step.
Answers(g) == hpc[g] # "idle" /\ hpc'[g] = "idle"

\* The handler of g's request has called the store and the call has returned.
StoreReturned(g) == hpc[g] \in {"store", "metadata"} /\ pc[g] = "idle"

\* C25: every handler answers a store error by its kind - ErrSecretExists
\* with 409, ErrSecretNotFound and ErrVersionNotFound with 404, any other
\* error with 500 - and answers 400, before it calls the store, a body that
\* does not parse or lacks the field the operation requires (secretId for
\* CreateSecret, the payload data for AddSecretVersion).
C25_ErrorStatus ==
    [][\A g \in Goroutines :
         Answers(g) =>
           /\ /\ hpc[g] = "routed"
              /\ \/ /\ Endpoint(req[g]) = "CreateSecret"
                    /\ ~req[g].body.valid \/ req[g].body.secretId = <<>>
                 \/ /\ Endpoint(req[g]) = "AddSecretVersion"
                    /\ \/ ~req[g].body.valid
                       \/ req[g].body.payload = NilPointer
                       \/ req[g].body.payload = [data |-> <<>>]
              => resp'[g].status = 400 /\ secrets' = secrets
           /\ StoreReturned(g) /\ ret[g].err # ErrNil
              => resp'[g].status =
                   IF ret[g].err = ErrSecretExists THEN 409
                   ELSE IF ret[g].err \in {ErrSecretNotFound, ErrVersionNotFound}
                   THEN 404
                   ELSE 500]_vars

\* C26: a request whose store calls succeed is answered 201 by CreateSecret
\* and AddSecretVersion, 200 by GetSecret, ListSecrets, ListSecretVersions
\* and AccessSecretVersion, and 204 without a body by DeleteSecret and
\* DeleteSecretVersion; a request on no route of the API is answered 404.
C26_SuccessStatus ==
    [][\A g \in Goroutines :
         Answers(g) =>
           /\ Endpoint(req[g]) = "none" => resp'[g].status = 404
           /\ StoreReturned(g) /\ ret[g].err = ErrNil
              => /\ Endpoint(req[g]) \in {"CreateSecret", "AddSecretVersion"}
                    => resp'[g].status = 201 /\ resp'[g].body # NoBody
                 /\ Endpoint(req[g]) \in {"GetSecret", "ListSecrets",
                                          "ListSecretVersions", "AccessSecretVersion"}
                    => resp'[g].status = 200 /\ resp'[g].body # NoBody
                 /\ Endpoint(req[g]) \in {"DeleteSecret", "DeleteSecretVersion"}
                    => resp'[g].status = 204 /\ resp'[g].body = NoBody]_vars

\* One request has been answered 204 without a body by DeleteSecret, after
\* a CreateSecret was answered 201, and another, on no route, 404.
C26_Witness ==
    \E g, h \in Goroutines :
        /\ g # h
        /\ resp[g] = [status |-> 204, handler |-> "DeleteSecret", body |-> NoBody]
        /\ resp[h].status = 404 /\ resp[h].handler = "NotFound"
        /\ secrets = <<>>


\* The stored resources that were created under the pair (projectID, secretID):
\* a Secret carries the pair it was created with in its Name.
CreatedAs(projectID, secretID) ==
    { k \in DOMAIN secrets :
        secrets[k].Name = StrProjects \o projectID \o StrSecrets \o secretID }

\* The stored resources that were created under the project.
CreatedUnder(projectID) ==
    UNION { CreatedAs(t[1], t[2]) : t \in { x \in Pairs : x[1] = projectID } }

\* C31: a ListSecrets call returns only resources that were created under
\* exactly the project it names, in ascending order of their names, and all
\* of them when it asks for one page of the default size from the start; a
\* resource created under another project is never among them.
C31_ListSecretsOfProject ==
    [][\A g \in Goroutines :
         Completes(g, "ListSecrets") =>
           LET items == ret'[g].items
               created == { Metadata(secrets[k]) : k \in CreatedUnder(call[g].projectID) }
           IN  /\ ret'[g].err = ErrNil
               /\ \A i \in 1..Len(items) : Metadata(items[i]) \in created
               /\ \A i, j \in 1..Len(items) :
                    i < j => StrGreater(items[j].Name, items[i].Name)
               /\ call[g].pageSize = 0 /\ call[g].pageToken = <<>>
                    => { Metadata(items[i]) : i \in 1..Len(items) } = created]_vars

\* C32: distinct (project, secret-id) pairs are distinct store entries:
\* CreateSecret fails with ErrSecretExists only when a resource created under
\* the very pair it names is stored, and GetSecret succeeds only then and
\* returns that resource.
C32_PairsAreDistinctEntries ==
    [][\A g \in Goroutines :
         /\ Completes(g, "CreateSecret") /\ ret'[g].err = ErrSecretExists
               => CreatedAs(call[g].projectID, call[g].secretID) # {}
         /\ Completes(g, "GetSecret") /\ ret'[g].err = ErrNil
               => /\ CreatedAs(call[g].projectID, call[g].secretID) # {}
                  /\ ret'[g].secret.Name
                       = StrProjects \o call[g].projectID \o StrSecrets
                           \o call[g].secretID]_vars

\* C39: a step of AddSecretVersion, DeleteSecretVersion, DeleteSecret or
\* CreateSecret on one (project, secret-id) leaves every stored resource that
\* was created under another pair as it is: stored still, with the same
\* metadata, counter and versions.
C39_OtherResourcesUnchanged ==
    [][\A g \in Goroutines :
         /\ pc[g] # "idle" /\ pc'[g] # pc[g]
         /\ call[g].op \in { "AddSecretVersion", "DeleteSecretVersion",
                             "DeleteSecret", "CreateSecret" }
         => \A k \in DOMAIN secrets \ CreatedAs(call[g].projectID, call[g].secretID) :
              /\ k \in DOMAIN secrets'
              /\ secrets'[k] = secrets[k]]_vars

\* The number of the items a listing call ranges over that its order puts
\* before item x: descending numbers for versions, ascending names for
\* secrets.
OffsetOf(g, x) ==
    Cardinality({ y \in Listed(g) :
                    IF call[g].op = "ListSecretVersions"
                    THEN VersionNumber(y) > VersionNumber(x)
                    ELSE StrGreater(x.Name, y.Name) })

\* C33: ListSecrets and ListSecretVersions with a token that is the decimal
\* text of k >= 0 return exactly the items at the offsets k .. min(k +
\* pageSize, n) - 1 of the sorted list of n items - no item when k >= n -
\* and with no token or one that is no number the items from offset 0.
C33_TokenIsOffset ==
    [][\A g \in Goroutines :
         /\ Completes(g, "ListSecrets") \/ Completes(g, "ListSecretVersions")
         /\ ret'[g].err = ErrNil
         => LET token == call[g].pageToken
                n == Cardinality(Listed(g))
                k == IF token # <<>> /\ Atoi(token).ok THEN Atoi(token).n ELSE 0
                size == IF call[g].pageSize <= 0 THEN DefaultPageSize
                        ELSE call[g].pageSize
                end == IF k + size < n THEN k + size ELSE n
                items == ret'[g].items
            IN  k >= 0 =>
                  /\ Len(items) = (IF end > k THEN end - k ELSE 0)
                  /\ \A i \in 1..Len(items) :
                       /\ items[i] \in Listed(g)
                       /\ OffsetOf(g, items[i]) = k + i - 1]_vars

\* C34: the page size a list handler hands to the store is the pageSize
\* query value when that is the text of an integer in 1..1000 and 100
\* otherwise, so always in 1..1000; the store pages with 100 when it is
\* given a page size that is not positive; and no page has more items than
\* the page size in effect.
C34_PageSizeInRange ==
    [][/\ \A g \in Goroutines :
            /\ hpc[g] = "routed" /\ hpc'[g] = "store"
               /\ call'[g].op \in {"ListSecrets", "ListSecretVersions"}
               => LET text == req[g].query.pageSize
                      inRange == \E n \in 1..1000 :
                                    text \in { Itoa(n), <<"+">> \o Itoa(n) }
                  IN  /\ call'[g].pageSize \in 1..1000
                      /\ inRange => Itoa(call'[g].pageSize) \in { text, Tail(text) }
                      /\ ~inRange => call'[g].pageSize = 100
            /\ (Completes(g, "ListSecrets") \/ Completes(g, "ListSecretVersions"))
               /\ ret'[g].err = ErrNil
               => Len(ret'[g].items) <= call[g].pageSize
       /\ list'.op = "Page" =>
            LET effective == IF list'.pageSize <= 0 THEN 100 ELSE list'.pageSize IN
            Len(list'.page.items)
              = (IF list'.len < effective THEN list'.len ELSE effective)]_vars

\* A request with pageSize=1001 whose handler has called the store with page
\* size 100, and a list of 101 items of which the store, given page size 0,
\* returned 100.
C34_Witness ==
    /\ \E g \in Goroutines :
         /\ pc[g] = "rlocked" /\ call[g].op = "ListSecretVersions"
         /\ req[g].query.pageSize = <<"1", "0", "0", "1">>
         /\ call[g].pageSize = 100
    /\ list.op = "Page" /\ list.len = 101 /\ list.pageSize = 0
    /\ Len(list.page.items) = 100

\* C35: the AccessSecretVersion handler answers as one read of the store:
\* its answer is 200 or 404, never 500, whatever other requests add or
\* delete meanwhile, and the data, the name and the checksum of a 200 answer
\* are those of one version.
C35_AccessIsOneRead ==
    [][\A g \in Goroutines :
         Answers(g) /\ Endpoint(req[g]) = "AccessSecretVersion"
         => /\ resp'[g].status \in {200, 404}
            /\ resp'[g].status = 200 =>
                 \* the version GetSecretVersion has returned to the handler
                 LET version == ret[g].version IN
                 /\ resp'[g].body.name = version.Name
                 /\ resp'[g].body.payload.data = version.Data
                 /\ resp'[g].body.payload.checksum = version.Checksum]_vars

C37_CreateAlwaysAnswers ==
    [][\A g \in Goroutines :
         Answers(g) /\ Endpoint(req[g]) = "CreateSecret" /\ req[g].body.valid
         => /\ resp'[g].status \in {201, 400, 409, 500}
            /\ StoreReturned(g) /\ ret[g].err = ErrNil => resp'[g].status = 201]_vars

\* The three errors of the store that tell the caller what it asked for is
\* not there, or is there already.
StateErrors == { ErrSecretNotFound, ErrVersionNotFound, ErrSecretExists }

\* C38: a store call that returns ErrSecretNotFound, ErrVersionNotFound or
\* ErrSecretExists has changed nothing in the store - it returns in its
\* first step under the lock, and that step leaves the map as it is - and a
\* request that is answered 400, 404 or 409 has changed nothing either: its
\* handler has called the store not at all, or made calls that returned one
\* of the three errors or only read.
C38_ErrorsChangeNothing ==
    [][\A g \in Goroutines :
         /\ pc[g] # "idle" /\ pc'[g] = "idle" /\ ret'[g].err \in StateErrors
               => /\ pc[g] \in {"locked", "rlocked"}
                  /\ secrets' = secrets
         /\ Answers(g) /\ resp'[g].status \in {400, 404, 409}
               => /\ secrets' = secrets
                  /\ \/ hpc[g] = "routed"
                     \/ StoreReturned(g) /\ ret[g].err \in StateErrors]_vars

\* A DELETE of a version that is not stored has been answered 404 while the
\* secret and its version 1 are stored, and a POST that creates the secret
\* again has been answered 409.
C38_Witness ==
    \E g, h \in Goroutines :
        /\ resp[g].status = 404 /\ resp[g].handler = "DeleteSecretVersion"
        /\ resp[h].status = 409 /\ resp[h].handler = "CreateSecret"
        /\ \E k \in DOMAIN secrets : DOMAIN secrets[k].Versions = { <<"1">> }

\* C40: a GET or DELETE on .../secrets/{s}, a GET on .../secrets/{s}/versions
\* and a DELETE or GET-with-:access on .../secrets/{s}/versions/{v}, for ids
\* without "/", reach the handler of their route, and that handler calls the
\* store with exactly the ids of the path - also when an id is, or begins
\* with, "projects", "secrets" or "versions".
C40_DispatchByPath ==
    [][\A g \in Goroutines :
         hpc[g] = "routed" /\ hpc'[g] # "routed" /\ "meant" \in DOMAIN req[g]
         => LET meant == req[g].meant IN
            /\ hpc'[g] = "store"
            /\ call'[g].op = meant.op
            /\ call'[g].projectID = meant.projectID
            /\ call'[g].secretID = meant.secretID
            /\ meant.versionID # <<>> => call'[g].versionID = meant.versionID]_vars

=========================================================================
